---------------------------- MODULE Spec2Model ----------------------------
(***************************************************************************)
(* Hierarchical memory subsystem of src/memory_system.py: three SQLite-    *)
(* backed tier stores (working, episodic, semantic), the MemorySystem      *)
(* facade, and the consolidation engine.                                   *)
(*                                                                         *)
(* Representation choices                                                  *)
(*   - a Python str is a sequence of one-character strings, so that        *)
(*     substring tests, SQL LIKE and JSON text are computed, not assumed;  *)
(*   - a datetime is a number of hours; isoformat() text of naive          *)
(*     datetimes orders as the datetimes do, so the TEXT columns           *)
(*     created_at / last_accessed are compared as numbers;                 *)
(*   - a float score s is the integer s * ScoreOne;                        *)
(*   - a table is the sequence of its rows in rowid order;                 *)
(*   - a raised exception is a record [exc |-> name].                      *)
(***************************************************************************)
EXTENDS Integers, Sequences, FiniteSets, TLC

\* fault[t]: the state of the database file of store t (each store opens
\* its own file with sqlite3.connect in every method)
VARIABLE fault

\* ------------------------------------------------------------------ bounds
MaxStoreOps == 2   \* direct Store.store calls in one behaviour
MaxTime == 1       \* the clock stops advancing here (hours)
MaxRuns == 2       \* runs of the background loop in one behaviour
MaxAccessCount == 4 \* no retrieval is started once an item was accessed this often

\* --------------------------------------------------------------- constants
ScoreOne == 365000      \* the float 1.0; every factor of _calculate_importance is a multiple of 1/ScoreOne
DefaultLimit == 100     \* query.get('limit', 100)
HoursPerDay == 24
DefaultExpiryHours == 1 \* timedelta(hours=1)
ImportanceThreshold == 255500   \* 0.7 * ScoreOne
AccessCountThreshold == 5
LongTextLen == 100
SweepLimit == 1000   \* 'limit': 1000 of the consolidation sweeps
SleepHours == 6      \* asyncio.sleep(6 * 3600)
ContextLimit == 50   \* query['limit'] = 50 of _build_context_query
SimOne == 3600       \* the similarity 1.0; every term of _calculate_similarity is a multiple of 1/SimOne
SimilarityDays == 30 \* time_diff / (30 * 24 * 3600)
AssocLimit == 50     \* 'limit': 50 of retrieve_by_association
MinConceptLen == 3   \* len(word) > 3
DefaultMaxDepth == 3 \* max_depth: int = 3
StatsLimit == 10000  \* 'limit': 10000 of get_memory_stats

NoneStr == "None"   \* Python None in a field that otherwise holds a str
NoneTime == 0 - 1   \* Python None in a field that otherwise holds a datetime

\* ------------------------------------------------------------------ strings
RECURSIVE Join(_, _)
\* sep.join(parts) on character sequences
Join(parts, sep) ==
    IF parts = <<>> THEN <<>>
    ELSE IF Len(parts) = 1 THEN parts[1]
    ELSE parts[1] \o sep \o Join(Tail(parts), sep)

\* Python: needle in hay (substring test on str)
Contains(hay, needle) ==
    \E i \in 1..(Len(hay) - Len(needle) + 1) :
        SubSeq(hay, i, i + Len(needle) - 1) = needle

\* ASCII case folding as SQLite's LIKE applies it
Lower(c) ==
    CASE c = "A" -> "a"
      [] c = "I" -> "i"
      [] c = "B" -> "b"
      [] OTHER -> c

RECURSIVE Like(_, _)
\* SQLite: txt LIKE pat ('%' any run of characters, '_' any one character,
\* ASCII letters compared without regard to case, no escape character)
Like(pat, txt) ==
    IF pat = <<>> THEN txt = <<>>
    ELSE IF Head(pat) = "%"
         THEN Like(Tail(pat), txt) \/ (txt # <<>> /\ Like(pat, Tail(txt)))
         ELSE /\ txt # <<>>
              /\ (Head(pat) = "_" \/ Lower(Head(pat)) = Lower(Head(txt)))
              /\ Like(Tail(pat), Tail(txt))

\* words used as tags and as metadata values
tAI == <<"A", "I">>
tai == <<"a", "i">>
tb == <<"b">>
tUnderscore == <<"_", "_">>
task_execution == <<"t","a","s","k","_","e","x","e","c","u","t","i","o","n">>
user_interaction == <<"u","s","e","r","_","i","n","t","e","r","a","c","t","i","o","n">>
decision_made == <<"d","e","c","i","s","i","o","n","_","m","a","d","e">>
problem_solved == <<"p","r","o","b","l","e","m","_","s","o","l","v","e","d">>
error_encountered == <<"e","r","r","o","r","_","e","n","c","o","u","n","t","e","r","e","d">>
learning_event == <<"l","e","a","r","n","i","n","g","_","e","v","e","n","t">>

\* ---------------------------------------------------------------- data model
\* class MemoryType(Enum): the enum's values
MemoryType == {"working", "episodic", "semantic", "procedural"}

\* the keys of MemorySystem.stores, in the order the dict is built
StoreOrder == <<"working", "episodic", "semantic">>
Tiers == {"working", "episodic", "semantic"}

\* kwargs.get(k, d) / dict.get(k, d)
Get(kw, k, d) == IF k \in DOMAIN kw THEN kw[k] ELSE d

EmptyDict == [k \in {} |-> <<>>]

Raised(name) == [exc |-> name]
Returned(v) == [exc |-> "", val |-> v]
IsRaised(r) == r.exc # ""

\* the dataclass-generated __init__ of MemoryItem and of its subclasses: id,
\* content and memory_type have no default in any of the four classes (the
\* subclasses add defaulted fields only), so a call that passes no
\* memory_type raises TypeError before __post_init__ runs
DataclassInit(cls, kw, now) ==
    IF ~({"id", "content", "memory_type"} \subseteq DOMAIN kw)
    THEN Raised("TypeError")
    ELSE Returned(
        [ cls |-> cls,
          id |-> kw.id,
          content |-> kw.content,
          \* __post_init__ of the three subclasses overwrites memory_type
          memory_type |-> CASE cls = "WorkingMemory" -> "working"
                            [] cls = "EpisodicMemory" -> "episodic"
                            [] cls = "SemanticMemory" -> "semantic"
                            [] OTHER -> kw.memory_type,
          created_at |-> Get(kw, "created_at", now),
          last_accessed |-> Get(kw, "last_accessed", now),
          access_count |-> Get(kw, "access_count", 0),
          importance_score |-> Get(kw, "importance_score", ScoreOne \div 2),
          tags |-> Get(kw, "tags", {}),
          metadata |-> Get(kw, "metadata", EmptyDict),
          ext |-> CASE cls = "WorkingMemory" ->
                        [ task_id |-> Get(kw, "task_id", NoneStr),
                          \* WorkingMemory.__post_init__
                          expiry_time |->
                              IF Get(kw, "expiry_time", NoneTime) = NoneTime
                              THEN now + DefaultExpiryHours
                              ELSE kw.expiry_time,
                          priority |-> Get(kw, "priority", 5) ]
                    [] cls = "EpisodicMemory" ->
                        [ context |-> Get(kw, "context", EmptyDict),
                          participants |-> Get(kw, "participants", <<>>),
                          outcome |-> Get(kw, "outcome", NoneStr),
                          lessons_learned |-> Get(kw, "lessons_learned", <<>>) ]
                    [] cls = "SemanticMemory" ->
                        [ concept |-> Get(kw, "concept", <<>>),
                          relationships |-> Get(kw, "relationships", EmptyDict),
                          confidence_score |-> Get(kw, "confidence_score", ScoreOne),
                          source |-> Get(kw, "source", NoneStr) ]
                    [] OTHER -> [base |-> TRUE] ])

\* ------------------------------------------------------------ serialisation
\* json.dumps(list_of_str): the tags of the model use ASCII letters, '_' and
\* '%' only, which json.dumps writes unescaped
JsonDumpsList(lst) ==
    <<"[">> \o Join([i \in 1..Len(lst) |-> <<"\"">> \o lst[i] \o <<"\"">>],
                    <<",", " ">>) \o <<"]">>

RECURSIVE JsonParseStrings(_)
\* the strings of '"a", "b", ...'
JsonParseStrings(t) ==
    IF t = <<>> THEN <<>>
    ELSE LET close == CHOOSE j \in 2..Len(t) :
                          t[j] = "\"" /\ \A k \in 2..(j - 1) : t[k] # "\""
             rest == SubSeq(t, close + 1, Len(t))
             next == IF Len(rest) >= 2 /\ SubSeq(rest, 1, 2) = <<",", " ">>
                     THEN SubSeq(rest, 3, Len(rest))
                     ELSE rest
         IN <<SubSeq(t, 2, close - 1)>> \o JsonParseStrings(next)

\* json.loads of a JSON array of strings
JsonLoadsList(text) == JsonParseStrings(SubSeq(text, 2, Len(text) - 1))

\* json.dumps / json.loads of metadata: the metadata maps of the model have
\* str keys and str values, which JSON represents exactly
JsonDumpsDict(m) == [json |-> m]
JsonLoadsDict(text) == text.json

\* pickle.dumps / pickle.loads of the content
PickleDumps(c) == [pickle |-> c]
PickleLoads(blob) == blob.pickle

\* set(lst)
ToSet(lst) == {lst[i] : i \in 1..Len(lst)}

RECURSIVE SeqsOf(_)
\* list(a_set): every iteration order a Python set may have
SeqsOf(S) ==
    IF S = {} THEN {<<>>}
    ELSE UNION {{<<x>> \o tl : tl \in SeqsOf(S \ {x})} : x \in S}

\* --------------------------------------------------------------- the store
\* the VALUES tuple of SQLiteMemoryStore.store for one iteration order of
\* item.tags: the nine columns of memory_items and nothing else
ItemToRow(item, taglist) ==
    [ id |-> item.id,
      content |-> PickleDumps(item.content),
      memory_type |-> item.memory_type,
      created_at |-> item.created_at,
      last_accessed |-> item.last_accessed,
      access_count |-> item.access_count,
      importance_score |-> item.importance_score,
      tags |-> JsonDumpsList(taglist),
      metadata |-> JsonDumpsDict(item.metadata) ]

\* INSERT OR REPLACE: the row holding the id (the PRIMARY KEY) is deleted and
\* the new row gets the next rowid
InsertOrReplace(rows, row) ==
    SelectSeq(rows, LAMBDA r : r.id # row.id) \o <<row>>

\* what store, update and delete's commit return: sqlite3 raises while the
\* store's file cannot be written, the except branch logs and returns False
Store_ok(self) == fault[self] = "none"

\* SQLiteMemoryStore.store: the tables it can leave (one per iteration order
\* of the tag set); it returns Store_ok, and nothing is committed when the
\* try block is left by an exception
Store_store(self, rows, item) ==
    IF fault[self] # "none" THEN {rows}
    ELSE {InsertOrReplace(rows, ItemToRow(item, tl)) : tl \in SeqsOf(item.tags)}

\* SQLiteMemoryStore.update
Store_update(self, rows, item) == Store_store(self, rows, item)

\* SQLiteMemoryStore.delete: the table left and the value returned
Store_delete(self, rows, item_id) ==
    IF fault[self] # "none" THEN [rows |-> rows, ret |-> FALSE]
    ELSE [ rows |-> SelectSeq(rows, LAMBDA r : r.id # item_id),
           ret |-> \E i \in 1..Len(rows) : rows[i].id = item_id ]

\* SQLiteMemoryStore._row_to_memory_item: the three tier classes are built
\* without memory_type; only the else branch passes it
RowToMemoryItem(row, now) ==
    LET base == [ id |-> row.id,
                  content |-> PickleLoads(row.content),
                  created_at |-> row.created_at,
                  last_accessed |-> row.last_accessed,
                  access_count |-> row.access_count,
                  importance_score |-> row.importance_score,
                  tags |-> ToSet(JsonLoadsList(row.tags)),
                  metadata |-> JsonLoadsDict(row.metadata) ]
    IN CASE row.memory_type = "episodic" -> DataclassInit("EpisodicMemory", base, now)
         [] row.memory_type = "semantic" -> DataclassInit("SemanticMemory", base, now)
         [] row.memory_type = "working" -> DataclassInit("WorkingMemory", base, now)
         [] OTHER -> DataclassInit("MemoryItem",
                                   [memory_type |-> row.memory_type] @@ base, now)

\* SQLiteMemoryStore.retrieve: the except branch turns an exception into None
Store_retrieve(self, rows, item_id, now) ==
    IF fault[self] = "unreadable" THEN [found |-> FALSE]
    ELSE IF \E i \in 1..Len(rows) : rows[i].id = item_id
    THEN LET row == rows[CHOOSE i \in 1..Len(rows) : rows[i].id = item_id]
             r == RowToMemoryItem(row, now)
         IN IF IsRaised(r) THEN [found |-> FALSE] ELSE [found |-> TRUE, item |-> r.val]
    ELSE [found |-> FALSE]

\* the WHERE clause SQLiteMemoryStore.search builds
RowMatches(row, query) ==
    /\ "memory_type" \in DOMAIN query => row.memory_type = query.memory_type
    /\ "min_importance" \in DOMAIN query => row.importance_score >= query.min_importance
    /\ "tags" \in DOMAIN query =>
           \A i \in 1..Len(query.tags) :
               Like(<<"%", "\"">> \o query.tags[i] \o <<"\"", "%">>, row.tags)
    /\ "created_after" \in DOMAIN query => row.created_at > query.created_after

\* ORDER BY importance_score DESC, last_accessed DESC: r1 must precede r2
RowBefore(r1, r2) ==
    \/ r1.importance_score > r2.importance_score
    \/ /\ r1.importance_score = r2.importance_score
       /\ r1.last_accessed > r2.last_accessed

RECURSIVE OrderBy(_)
\* every sequence of the rows S that ORDER BY allows: SQL leaves the order of
\* rows with equal keys to the query plan
OrderBy(S) ==
    IF S = {} THEN {<<>>}
    ELSE UNION {{<<r>> \o tl : tl \in OrderBy(S \ {r})} :
                r \in {x \in S : \A o \in S : ~RowBefore(o, x)}}

\* seq[:n]
Take(seq, n) == SubSeq(seq, 1, IF n < Len(seq) THEN n ELSE Len(seq))

\* the list comprehension over the fetched rows; any exception leaves the
\* try block and search returns []
RowsToItems(rowseq, now) ==
    IF \E i \in 1..Len(rowseq) : IsRaised(RowToMemoryItem(rowseq[i], now))
    THEN <<>>
    ELSE [i \in 1..Len(rowseq) |-> RowToMemoryItem(rowseq[i], now).val]

\* SQLiteMemoryStore.search: every list it can return
Store_search(self, rows, query, now) ==
    LET hits == {rows[i] : i \in {j \in 1..Len(rows) : RowMatches(rows[j], query)}}
        limit == Get(query, "limit", DefaultLimit)
    IN IF fault[self] = "unreadable" THEN {<<>>}
       ELSE {RowsToItems(Take(o, limit), now) : o \in OrderBy(hits)}

\* ------------------------------------------------------------ consolidation
\* the content values of the model: kind is the Python type, text is the str
\* itself for kind "str" and the str() rendering for any other kind
IsStr(c) == c.kind = "str"
Str(c) == c.text

\* hashlib.md5(str(item.content).encode()).hexdigest(): one digest per text
Md5(text) == [md5 |-> text]

\* a code point U+D800..U+DFFF on its own in a str: pickle stores it, and
\* str.encode() (UTF-8, strict) raises UnicodeEncodeError on it
LoneSurrogate == "U+D800"
EncodeRaises(text) == \E i \in 1..Len(text) : text[i] = LoneSurrogate

\* the loop of lines 706-709 hashes every item before any group is merged
HashingRaises(items) == \E i \in 1..Len(items) : EncodeRaises(Str(items[i].content))

ExperientialIndicators ==
    << task_execution, user_interaction, decision_made,
       problem_solved, error_encountered, learning_event >>

\* MemoryConsolidation._is_experiential: any(indicator in type ...), a
\* substring test on the str under metadata['type']
IsExperiential(item) ==
    \E i \in 1..Len(ExperientialIndicators) :
        Contains(Get(item.metadata, "type", <<>>), ExperientialIndicators[i])

\* MemoryConsolidation._should_consolidate
ShouldConsolidate(item) ==
    \/ item.importance_score >= ImportanceThreshold
    \/ item.access_count >= AccessCountThreshold
    \/ (IsStr(item.content) /\ Len(item.content.text) > LongTextLen)

Min(a, b) == IF a < b THEN a ELSE b
Max(a, b) == IF a > b THEN a ELSE b
Abs(a) == IF a < 0 THEN 0 - a ELSE a

\* a score that depends on the item's present score: half of it
HalveImportance(item, now) == item.importance_score \div 2

\* MemoryConsolidation._calculate_importance, in units of 1/ScoreOne:
\* 0.3/10 = 10950, 0.2/365 = 200, 0.2/1000 = 73, 0.1/10 = 3650, 0.2/5 = 14600
CalculateImportance(item, now) ==
    LET base_score == ScoreOne \div 2
        access_factor == IF item.access_count >= 10 THEN 109500
                         ELSE item.access_count * 10950
        days_old == (now - item.last_accessed) \div HoursPerDay
        recency_factor == IF days_old >= 365 THEN 0 ELSE (365 - days_old) * 200
        content_factor == IF IsStr(item.content)
                          THEN Min(1000, Len(item.content.text)) * 73
                          ELSE 0
        tag_factor == Min(10, Cardinality(item.tags)) * 3650
        metadata_factor == Min(5, Cardinality(DOMAIN item.metadata)) * 14600
        total_score == base_score + access_factor + recency_factor
                       + content_factor + tag_factor + metadata_factor
    IN Min(ScoreOne, total_score)

\* the uuid4().hex[:8] values the model draws from
UuidPool == {"a1", "b2"}

\* MemoryConsolidation._consolidate_to_longterm with uuid4().hex[:8] = u:
\* [exc, stored, item, rows] for every table the target store can be left with
ConsolidateToLongterm(db, item, u, now) ==
    LET carried == [ content |-> item.content,
                     created_at |-> item.created_at,
                     last_accessed |-> item.last_accessed,
                     access_count |-> item.access_count,
                     importance_score |-> item.importance_score,
                     tags |-> item.tags,
                     metadata |-> item.metadata ]
        target == IF IsExperiential(item) THEN "episodic" ELSE "semantic"
        consolidated ==
            IF IsExperiential(item)
            THEN DataclassInit("EpisodicMemory",
                     [ id |-> "episodic_" \o u,
                       context |-> Get(item.metadata, "context", EmptyDict),
                       participants |-> Get(item.metadata, "participants", <<>>),
                       outcome |-> Get(item.metadata, "outcome", NoneStr),
                       lessons_learned |-> Get(item.metadata, "lessons_learned", <<>>) ]
                     @@ carried, now)
            ELSE DataclassInit("SemanticMemory",
                     [ id |-> "semantic_" \o u,
                       concept |-> Get(item.metadata, "concept", <<>>),
                       relationships |-> Get(item.metadata, "relationships", EmptyDict),
                       confidence_score |-> Get(item.metadata, "confidence_score", ScoreOne),
                       source |-> Get(item.metadata, "source", NoneStr) ]
                     @@ carried, now)
    IN IF IsRaised(consolidated)
       THEN {[exc |-> consolidated.exc, target |-> target, db |-> db,
              stored |-> FALSE]}
       ELSE {[exc |-> "", target |-> target, db |-> [db EXCEPT ![target] = rows],
              stored |-> Store_ok(target)] :
                rows \in Store_store(target, db[target], consolidated.val)}

NoStats ==
    [ working_to_episodic |-> 0, working_to_semantic |-> 0, expired_removed |-> 0,
      duplicates_merged |-> 0, importance_updated |-> 0 ]

RECURSIVE ExpireAndPromote(_, _, _, _)
\* the loop over working_items in consolidate_memories: every outcome
\* [exc, db, stats]; an exception inside the loop leaves consolidate_memories
ExpireAndPromote(db, items, stats, now) ==
    IF items = <<>> THEN {[exc |-> "", db |-> db, stats |-> stats]}
    ELSE LET item == Head(items) IN
         IF item.cls = "WorkingMemory" /\ now > item.ext.expiry_time
         THEN IF ShouldConsolidate(item)
              THEN UNION {
                       IF c.exc # ""
                       THEN {[exc |-> c.exc, db |-> c.db, stats |-> stats]}
                       ELSE ExpireAndPromote(
                                [c.db EXCEPT !["working"] =
                                    Store_delete("working", c.db["working"], item.id).rows],
                                Tail(items),
                                [stats EXCEPT
                                    !.working_to_episodic =
                                        @ + (IF c.stored /\ c.target = "episodic" THEN 1 ELSE 0),
                                    !.working_to_semantic =
                                        @ + (IF c.stored /\ c.target = "semantic" THEN 1 ELSE 0),
                                    !.expired_removed = @ + 1],
                                now)
                       : c \in UNION {ConsolidateToLongterm(db, item, u, now) :
                                         u \in UuidPool}}
              ELSE ExpireAndPromote(
                       [db EXCEPT !["working"] = Store_delete("working", db["working"], item.id).rows],
                       Tail(items),
                       [stats EXCEPT !.expired_removed = @ + 1],
                       now)
         ELSE ExpireAndPromote(db, Tail(items), stats, now)

\* `abs(new_score - item.importance_score) > 0.1` on Python floats. The
\* scores of the model are exact multiples of 1/ScoreOne; the floats of the
\* code carry the rounding of 0.1, of the stored score and of every factor
\* summed into new_score (0.8 - 0.7 gives 0.10000000000000009, 0.6 - 0.5
\* gives 0.09999999999999998). A difference that is not exactly one tenth is
\* decided as in exact arithmetic; a difference of exactly one tenth is
\* decided by that rounding, either way
ExceedsTenth(new_score, old_score) ==
    LET d == Abs(new_score - old_score) * 10
    IN IF d > ScoreOne THEN {TRUE}
       ELSE IF d < ScoreOne THEN {FALSE}
       ELSE BOOLEAN

RECURSIVE RescoreItems(_, _, _, _)
\* the loop over one store's items in _update_importance_scores: every table
\* the store can be left with
RescoreItems(memory_type, rows, items, now) ==
    IF items = <<>> THEN {rows}
    ELSE LET item == Head(items)
             new_score == CalculateImportance(item, now)
         IN UNION {
                IF w
                THEN UNION {RescoreItems(memory_type, r, Tail(items), now) :
                               r \in Store_update(memory_type, rows,
                                         [item EXCEPT !.importance_score = new_score])}
                ELSE RescoreItems(memory_type, rows, Tail(items), now)
                : w \in ExceedsTenth(new_score, item.importance_score)}

\* MemoryConsolidation._update_importance_scores for one store
UpdateImportanceScoresOf(rows, memory_type, now) ==
    IF memory_type = "working" THEN {rows}
    ELSE UNION {RescoreItems(memory_type, rows, items, now) :
                   items \in Store_search(memory_type, rows,
                                 [memory_type |-> memory_type, limit |-> SweepLimit],
                                 now)}

RECURSIVE UpdateImportanceScoresIn(_, _, _)
\* MemoryConsolidation._update_importance_scores over the stores listed in
\* order: every db it can leave
UpdateImportanceScoresIn(db, order, now) ==
    IF order = <<>> THEN {db}
    ELSE UNION {UpdateImportanceScoresIn([db EXCEPT ![Head(order)] = r], Tail(order), now) :
                   r \in UpdateImportanceScoresOf(db[Head(order)], Head(order), now)}

\* _update_importance_scores on the three stores of MemorySystem
UpdateImportanceScores(db, now) == UpdateImportanceScoresIn(db, StoreOrder, now)

\* dict.update: the argument's value wins on a key both maps hold
DictUpdate(m, other) ==
    [k \in DOMAIN m \cup DOMAIN other |-> IF k \in DOMAIN other THEN other[k] ELSE m[k]]

RECURSIVE StableSortByImportance(_)
\* group.sort(key=importance_score, reverse=True): Python's sort is stable,
\* also with reverse=True
StableSortByImportance(seq) ==
    IF seq = <<>> THEN <<>>
    ELSE LET rest == StableSortByImportance(SubSeq(seq, 1, Len(seq) - 1))
             x == seq[Len(seq)]
             \* x goes after every element that does not rank below it
             k == Cardinality({i \in 1..Len(rest) :
                                  rest[i].importance_score >= x.importance_score})
         IN SubSeq(rest, 1, k) \o <<x>> \o SubSeq(rest, k + 1, Len(rest))

RECURSIVE FoldDuplicates(_, _)
\* the loop over group[1:]: the primary item after merging the duplicates
FoldDuplicates(primary, dups) ==
    IF dups = <<>> THEN primary
    ELSE LET d == Head(dups) IN
         FoldDuplicates(
             [primary EXCEPT
                 !.access_count = @ + d.access_count,
                 !.tags = @ \cup d.tags,
                 !.metadata = DictUpdate(@, d.metadata),
                 !.last_accessed = IF d.last_accessed > @ THEN d.last_accessed ELSE @],
             Tail(dups))

RECURSIVE DeleteDuplicates(_, _, _)
\* the store.delete(duplicate.id) calls of the loop over group[1:]: the
\* table they leave (a delete that fails returns False and the loop goes on)
DeleteDuplicates(memory_type, rows, dups) ==
    IF dups = <<>> THEN rows
    ELSE DeleteDuplicates(memory_type,
                          Store_delete(memory_type, rows, Head(dups).id).rows,
                          Tail(dups))

RECURSIVE MergeGroups(_, _, _, _)
\* the loop over content_groups in _merge_duplicates for one store: every
\* outcome [rows, merged]; hashes lists the digests in first-seen order.
\* merged_count is raised for each duplicate, whatever delete returned
MergeGroups(memory_type, rows, items, hashes) ==
    IF hashes = <<>> THEN {[rows |-> rows, merged |-> 0]}
    ELSE LET group == StableSortByImportance(
                          SelectSeq(items, LAMBDA it : Md5(Str(it.content)) = Head(hashes)))
         IN IF Len(group) > 1
            THEN LET primary == FoldDuplicates(group[1], Tail(group))
                     kept == DeleteDuplicates(memory_type, rows, Tail(group))
                 IN UNION {{[rows |-> o.rows, merged |-> o.merged + Len(group) - 1] :
                               o \in MergeGroups(memory_type, r, items, Tail(hashes))} :
                           r \in Store_update(memory_type, kept, primary)}
            ELSE MergeGroups(memory_type, rows, items, Tail(hashes))

RECURSIVE FirstSeen(_)
\* the keys of content_groups in insertion order
FirstSeen(items) ==
    IF items = <<>> THEN <<>>
    ELSE LET before == FirstSeen(SubSeq(items, 1, Len(items) - 1))
             h == Md5(Str(items[Len(items)].content))
         IN IF \E i \in 1..Len(before) : before[i] = h THEN before ELSE Append(before, h)

\* MemoryConsolidation._merge_duplicates for one store: every outcome
\* [exc, rows, merged]
MergeDuplicatesOf(rows, memory_type, now) ==
    UNION {IF HashingRaises(items)
           THEN {[exc |-> "UnicodeEncodeError", rows |-> rows, merged |-> 0]}
           ELSE {[exc |-> "", rows |-> m.rows, merged |-> m.merged] :
                    m \in MergeGroups(memory_type, rows, items, FirstSeen(items))} :
              items \in Store_search(memory_type, rows,
                            [memory_type |-> memory_type, limit |-> SweepLimit],
                            now)}

RECURSIVE MergeDuplicatesIn(_, _, _)
\* MemoryConsolidation._merge_duplicates over the stores listed in order:
\* every outcome [exc, db, merged]; an exception ends the method at the
\* store whose items it was hashing
MergeDuplicatesIn(db, order, now) ==
    IF order = <<>> THEN {[exc |-> "", db |-> db, merged |-> 0]}
    ELSE UNION {IF m.exc # ""
                THEN {[exc |-> m.exc, db |-> db, merged |-> 0]}
                ELSE {[exc |-> o.exc, db |-> o.db, merged |-> m.merged + o.merged] :
                         o \in MergeDuplicatesIn([db EXCEPT ![Head(order)] = m.rows],
                                                 Tail(order), now)} :
                m \in MergeDuplicatesOf(db[Head(order)], Head(order), now)}

\* _merge_duplicates on the three stores of MemorySystem
MergeDuplicates(db, now) == MergeDuplicatesIn(db, StoreOrder, now)

\* consolidate_memories once the working store's search has returned
\* working_items: the loop over them, then the two sweeps. No statement of
\* the method is inside a try block, so an exception ends it there
ConsolidateFromIn(db, order, working_items, now) ==
    UNION {
        IF s1.exc # "" THEN {s1}
        ELSE UNION {
                 {[exc |-> m.exc, db |-> m.db,
                   stats |-> [s1.stats EXCEPT !.importance_updated = 1,
                                              !.duplicates_merged =
                                                  IF m.exc = "" THEN m.merged ELSE @]] :
                     m \in MergeDuplicatesIn(d2, order, now)} :
                 d2 \in UpdateImportanceScoresIn(s1.db, order, now)}
        : s1 \in ExpireAndPromote(db, working_items, NoStats, now)}

\* the same on the three stores of MemorySystem
ConsolidateFrom(db, working_items, now) ==
    ConsolidateFromIn(db, StoreOrder, working_items, now)

\* MemoryConsolidation.consolidate_memories at clock reading now: every
\* outcome [exc, db, stats]
ConsolidateMemoriesIn(db, order, now) ==
    \* if MemoryType.WORKING in self.stores
    IF "working" \in ToSet(order)
    THEN UNION {ConsolidateFromIn(db, order, items, now) :
                   items \in Store_search("working", db["working"], [memory_type |-> "working"], now)}
    ELSE ConsolidateFromIn(db, order, <<>>, now)

\* consolidate_memories on the three stores of MemorySystem
ConsolidateMemories(db, now) == ConsolidateMemoriesIn(db, StoreOrder, now)

\* ------------------------------------------------------------------ facade
\* MemorySystem.store_memory with uuid4().hex[:8] = u: every outcome
\* [exc, item_id, ret, db, stored]; ret is the value returned when nothing is
\* raised, stored the item handed to the tier's store (at most one)
StoreMemory(db, content, memory_type, kwargs, u, now) ==
    LET item_id == memory_type \o "_" \o u
        common == [ id |-> item_id,
                    content |-> content,
                    importance_score |-> Get(kwargs, "importance_score", ScoreOne \div 2),
                    tags |-> ToSet(Get(kwargs, "tags", <<>>)),
                    metadata |-> Get(kwargs, "metadata", EmptyDict) ]
        item ==
            CASE memory_type = "working" ->
                     DataclassInit("WorkingMemory",
                         [ task_id |-> Get(kwargs, "task_id", NoneStr),
                           expiry_time |-> Get(kwargs, "expiry_time", NoneTime),
                           priority |-> Get(kwargs, "priority", 5) ] @@ common, now)
              [] memory_type = "episodic" ->
                     DataclassInit("EpisodicMemory",
                         [ context |-> Get(kwargs, "context", EmptyDict),
                           participants |-> Get(kwargs, "participants", <<>>),
                           outcome |-> Get(kwargs, "outcome", NoneStr),
                           lessons_learned |-> Get(kwargs, "lessons_learned", <<>>) ]
                         @@ common, now)
              [] memory_type = "semantic" ->
                     DataclassInit("SemanticMemory",
                         [ concept |-> Get(kwargs, "concept", <<>>),
                           relationships |-> Get(kwargs, "relationships", EmptyDict),
                           confidence_score |-> Get(kwargs, "confidence_score", ScoreOne),
                           source |-> Get(kwargs, "source", NoneStr) ] @@ common, now)
              [] OTHER ->
                     DataclassInit("MemoryItem",
                         [memory_type |-> memory_type] @@ common, now)
    IN IF IsRaised(item)
       THEN {[exc |-> item.exc, item_id |-> item_id, ret |-> "", db |-> db,
              stored |-> <<>>]}
       ELSE IF memory_type \in DOMAIN db /\ Store_ok(memory_type)
            THEN {[exc |-> "", item_id |-> item_id, ret |-> item_id,
                   db |-> [db EXCEPT ![memory_type] = rows], stored |-> <<item.val>>] :
                     rows \in Store_store(memory_type, db[memory_type], item.val)}
            ELSE {[exc |-> "", item_id |-> item_id, ret |-> "", db |-> db,
                   stored |-> <<>>]}

RECURSIVE ProbeStores(_, _, _, _)
\* the loop of retrieve_memory over self.stores.values()
ProbeStores(db, order, item_id, now) ==
    IF order = <<>> THEN [found |-> FALSE]
    ELSE LET r == Store_retrieve(Head(order), db[Head(order)], item_id, now)
         IN IF r.found THEN r ELSE ProbeStores(db, Tail(order), item_id, now)

\* MemorySystem.retrieve_memory
RetrieveMemory(db, item_id, now) == ProbeStores(db, StoreOrder, item_id, now)

RECURSIVE SortByImportanceAndRecency(_)
\* all_results.sort(key=(importance_score, last_accessed), reverse=True)
SortByImportanceAndRecency(seq) ==
    IF seq = <<>> THEN <<>>
    ELSE LET rest == SortByImportanceAndRecency(SubSeq(seq, 1, Len(seq) - 1))
             x == seq[Len(seq)]
             k == Cardinality({i \in 1..Len(rest) :
                      \/ rest[i].importance_score > x.importance_score
                      \/ /\ rest[i].importance_score = x.importance_score
                         /\ rest[i].last_accessed >= x.last_accessed})
         IN SubSeq(rest, 1, k) \o <<x>> \o SubSeq(rest, k + 1, Len(rest))

RECURSIVE FanOut(_, _, _, _)
\* the loop of search_memories over memory_types: every all_results list
FanOut(db, memory_types, query, now) ==
    IF memory_types = <<>> THEN {<<>>}
    ELSE LET mt == Head(memory_types)
             tails == FanOut(db, Tail(memory_types), query, now)
         IN IF mt \in Tiers
            THEN {r \o tl : r \in Store_search(mt, db[mt], query, now), tl \in tails}
            ELSE tails

\* MemorySystem.search_memories: every list it can return
SearchMemories(db, query, now) ==
    {Take(SortByImportanceAndRecency(all), Get(query, "limit", DefaultLimit)) :
        all \in FanOut(db, Get(query, "memory_types", StoreOrder), query, now)}

RECURSIVE SumImportance(_)
\* sum(item.importance_score for item in items)
SumImportance(items) ==
    IF items = <<>> THEN 0 ELSE Head(items).importance_score + SumImportance(Tail(items))

RECURSIVE SumAccess(_)
\* sum(item.access_count for item in items)
SumAccess(items) ==
    IF items = <<>> THEN 0 ELSE Head(items).access_count + SumAccess(Tail(items))

\* the entry get_memory_stats builds from one tier's items; the mean is
\* rounded down to a multiple of 1/ScoreOne, a missing date is NoneTime
TierStats(items) ==
    LET created == {items[i].created_at : i \in 1..Len(items)} IN
    [ total_items |-> Len(items),
      average_importance |-> SumImportance(items) \div Max(Len(items), 1),
      total_access_count |-> SumAccess(items),
      oldest_item |-> IF items = <<>> THEN NoneTime
                      ELSE CHOOSE c \in created : \A o \in created : c <= o,
      newest_item |-> IF items = <<>> THEN NoneTime
                      ELSE CHOOSE c \in created : \A o \in created : c >= o ]

\* MemorySystem.get_memory_stats: every dict it can return (the order of
\* the items a search returns changes no entry)
GetMemoryStats(db, now) ==
    {[t \in Tiers |->
         TierStats(CHOOSE items \in Store_search(t, db[t], [memory_type |-> t,
                                                        limit |-> StatsLimit], now) : TRUE)]}

\* --------------------------------------------------------------- retrieval
\* MemoryRetrieval._build_context_query
BuildContextQuery(context, memory_type) ==
    [memory_type |-> memory_type]
    @@ (IF "keywords" \in DOMAIN context THEN [tags |-> context.keywords] ELSE EmptyDict)
    @@ (IF "time_range" \in DOMAIN context /\ "start" \in DOMAIN context.time_range
        THEN [created_after |-> context.time_range.start] ELSE EmptyDict)
    @@ (IF "importance_threshold" \in DOMAIN context
        THEN [min_importance |-> context.importance_threshold] ELSE EmptyDict)
    @@ [limit |-> Get(context, "limit", ContextLimit)]

\* a touch that starts the count again instead of adding to it
TouchRestartingCount(item, now) ==
    [item EXCEPT !.last_accessed = now, !.access_count = 1]

\* item.last_accessed = datetime.now(); item.access_count += 1
Touch(item, now) ==
    [item EXCEPT !.last_accessed = now, !.access_count = @ + 1]

RECURSIVE TouchAllUnsaved(_, _, _, _)
\* a loop that touches the objects of the result list and leaves out
\* store.update: nothing is written back
TouchAllUnsaved(memory_type, rows, items, now) ==
    IF items = <<>> THEN {[rows |-> rows, items |-> <<>>]}
    ELSE {[rows |-> rows, items |-> <<Touch(Head(items), now)>> \o o.items] :
             o \in TouchAllUnsaved(memory_type, rows, Tail(items), now)}

RECURSIVE TouchAll(_, _, _, _)
\* the loop over results in retrieve_by_context: each item gets
\* last_accessed = now and access_count + 1 and is written back with
\* store.update; every [rows, items] it can end with
TouchAll(memory_type, rows, items, now) ==
    IF items = <<>> THEN {[rows |-> rows, items |-> <<>>]}
    ELSE LET touched == Touch(Head(items), now)
         IN UNION {{[rows |-> o.rows, items |-> <<touched>> \o o.items] :
                       o \in TouchAll(memory_type, r, Tail(items), now)} :
                   r \in Store_update(memory_type, rows, touched)}

RECURSIVE SortByRelevance(_)
\* all_results.sort(key=(importance_score, -access_count), reverse=True)
SortByRelevance(seq) ==
    IF seq = <<>> THEN <<>>
    ELSE LET rest == SortByRelevance(SubSeq(seq, 1, Len(seq) - 1))
             x == seq[Len(seq)]
             k == Cardinality({i \in 1..Len(rest) :
                      \/ rest[i].importance_score > x.importance_score
                      \/ /\ rest[i].importance_score = x.importance_score
                         /\ rest[i].access_count <= x.access_count})
         IN SubSeq(rest, 1, k) \o <<x>> \o SubSeq(rest, k + 1, Len(rest))

RECURSIVE ContextFanOutOneStore(_, _, _, _)
\* a loop that searches the store of each memory type and writes every
\* touched item to one store, the first of MemorySystem's dict
ContextFanOutOneStore(db, memory_types, context, now) ==
    IF memory_types = <<>> THEN {[db |-> db, all |-> <<>>]}
    ELSE LET mt == Head(memory_types)
             store == StoreOrder[1]
         IN
         IF mt \notin DOMAIN db
         THEN ContextFanOutOneStore(db, Tail(memory_types), context, now)
         ELSE UNION {UNION {{[db |-> o.db, all |-> t.items \o o.all] :
                               o \in ContextFanOutOneStore([db EXCEPT ![store] = t.rows],
                                                           Tail(memory_types), context, now)} :
                            t \in TouchAll(store, db[store], results, now)} :
                     results \in Store_search(mt, db[mt], BuildContextQuery(context, mt), now)}

RECURSIVE ContextFanOut(_, _, _, _)
\* the loop of retrieve_by_context over memory_types: every [db, all]
ContextFanOut(db, memory_types, context, now) ==
    IF memory_types = <<>> THEN {[db |-> db, all |-> <<>>]}
    ELSE LET mt == Head(memory_types) IN
         \* if memory_type in self.stores
         IF mt \notin DOMAIN db
         THEN ContextFanOut(db, Tail(memory_types), context, now)
         ELSE UNION {UNION {{[db |-> o.db, all |-> t.items \o o.all] :
                               o \in ContextFanOut([db EXCEPT ![mt] = t.rows],
                                                   Tail(memory_types), context, now)} :
                            t \in TouchAll(mt, db[mt], results, now)} :
                     results \in Store_search(mt, db[mt], BuildContextQuery(context, mt), now)}

\* MemoryRetrieval.retrieve_by_context(context, memory_types): every
\* [db, ret]
RetrieveByContextIn(db, memory_types, context, now) ==
    {[db |-> o.db, ret |-> SortByRelevance(o.all)] :
        o \in ContextFanOut(db, memory_types, context, now)}

\* retrieve_by_context with memory_types=None on the stores of MemorySystem
RetrieveByContext(db, context, now) == RetrieveByContextIn(db, StoreOrder, context, now)

RECURSIVE RetrieveEachIn(_, _, _, _)
\* asyncio.gather(*[retrieve_by_context(c) for c in contexts]): no call
\* suspends, so the calls run one after the other in the order listed; every
\* [db, rets, steps], rets the lists returned and steps the tables after each
\* call
RetrieveEachIn(db, memory_types, contexts, now) ==
    IF contexts = <<>> THEN {[db |-> db, rets |-> <<>>, steps |-> <<>>]}
    ELSE UNION {{[db |-> o.db, rets |-> <<r.ret>> \o o.rets,
                  steps |-> <<r.db>> \o o.steps] :
                   o \in RetrieveEachIn(r.db, memory_types, Tail(contexts), now)} :
                r \in RetrieveByContextIn(db, memory_types, Head(contexts), now)}

\* str.lower() on the letters in use
StrLower(text) == [i \in 1..Len(text) |-> Lower(text[i])]

RECURSIVE SplitWords(_, _)
\* set(text.split()): the maximal runs of non-blank characters; word is the
\* run being read
SplitWords(text, word) ==
    IF text = <<>> THEN (IF word = <<>> THEN {} ELSE {word})
    ELSE IF Head(text) = " "
         THEN (IF word = <<>> THEN {} ELSE {word}) \cup SplitWords(Tail(text), <<>>)
         ELSE SplitWords(Tail(text), Append(word, Head(text)))

\* MemoryRetrieval._calculate_similarity, as a multiple of 1/SimOne
CalculateSimilarity(item1, item2) ==
    LET tagPart ==
            IF item1.tags # {} /\ item2.tags # {}
            THEN (Cardinality(item1.tags \cap item2.tags) * ((SimOne \div 5) * 2))
                     \div Cardinality(item1.tags \cup item2.tags)
            ELSE 0
        words1 == SplitWords(StrLower(item1.content.text), <<>>)
        words2 == SplitWords(StrLower(item2.content.text), <<>>)
        wordPart ==
            IF IsStr(item1.content) /\ IsStr(item2.content) /\ words1 # {} /\ words2 # {}
            THEN (Cardinality(words1 \cap words2) * ((SimOne \div 5) * 2))
                     \div Cardinality(words1 \cup words2)
            ELSE 0
        \* 0.2 * max(0, 1 - hours / (30 * 24))
        timePart == Max(0, SimOne \div 5 - Abs(item1.created_at - item2.created_at)
                                              * (SimOne \div (5 * SimilarityDays * HoursPerDay)))
    IN Min(SimOne, tagPart + wordPart + timePart)

RECURSIVE StableSortBySimilarity(_)
\* similar_items.sort(key=lambda x: x[1], reverse=True) on [item, sim] pairs
StableSortBySimilarity(seq) ==
    IF seq = <<>> THEN <<>>
    ELSE LET rest == StableSortBySimilarity(SubSeq(seq, 1, Len(seq) - 1))
             x == seq[Len(seq)]
             k == Cardinality({i \in 1..Len(rest) : rest[i].sim >= x.sim})
         IN SubSeq(rest, 1, k) \o <<x>> \o SubSeq(rest, k + 1, Len(rest))

\* MemoryRetrieval.retrieve_similar: every list it can return
RetrieveSimilar(db, reference_item, similarity_threshold, now) ==
    IF reference_item.memory_type \notin Tiers THEN {<<>>}
    ELSE {LET scored == [i \in 1..Len(all_items) |->
                            [item |-> all_items[i],
                             sim |-> CalculateSimilarity(reference_item, all_items[i])]]
              kept == SelectSeq(scored, LAMBDA p : /\ p.item.id # reference_item.id
                                                   /\ p.sim >= similarity_threshold)
              sorted == StableSortBySimilarity(kept)
          IN [i \in 1..Len(sorted) |-> sorted[i].item] :
             all_items \in Store_search(reference_item.memory_type, db[reference_item.memory_type],
                               [memory_type |-> reference_item.memory_type], now)}

RECURSIVE AssocSearchAll(_, _, _, _)
\* the loop over self.stores.items() in one hop of retrieve_by_association:
\* every depth_results list
AssocSearchAll(db, order, current_concepts, now) ==
    IF order = <<>> THEN {<<>>}
    ELSE LET query == [tags |-> CHOOSE l \in SeqsOf(current_concepts) : TRUE,
                       limit |-> AssocLimit]
         IN {r \o tl : r \in Store_search(Head(order), db[Head(order)], query, now),
                       tl \in AssocSearchAll(db, Tail(order), current_concepts, now)}

\* the concepts one hop extracts from its results: the tags and, for str
\* content, the lowercased words longer than three characters
NewConcepts(depth_results) ==
    UNION {depth_results[i].tags
           \cup (IF IsStr(depth_results[i].content)
                 THEN {w \in SplitWords(StrLower(depth_results[i].content.text), <<>>) :
                          Len(w) > MinConceptLen}
                 ELSE {}) :
           i \in 1..Len(depth_results)}

RECURSIVE AssocHops(_, _, _, _, _, _)
\* the for loop of retrieve_by_association from one iteration on: every
\* [all, hops, left], hops listing each executed hop's frontier and results
\* and left being current_concepts when the loop ends
AssocHops(db, depth_left, current_concepts, visited_concepts, acc, now) ==
    IF depth_left = 0 \/ current_concepts = {}
    THEN {[all |-> acc.all, hops |-> acc.hops, left |-> current_concepts]}
    ELSE UNION {LET new_concepts == NewConcepts(depth_results) IN
                AssocHops(db, depth_left - 1,
                          new_concepts \ visited_concepts,
                          visited_concepts \cup new_concepts,
                          [all |-> acc.all \o depth_results,
                           hops |-> Append(acc.hops, [frontier |-> current_concepts,
                                                      results |-> depth_results])],
                          now) :
                depth_results \in AssocSearchAll(db, StoreOrder, current_concepts, now)}

\* a retrieve_by_association that returns all_results as accumulated, without
\* the dict keyed by id
KeepAllResults(all_results) == all_results

RECURSIVE UniqueById(_)
\* list({item.id: item for item in all_results}.values()): an id keeps the
\* place of its first item and the value of its last
UniqueById(all_results) ==
    IF all_results = <<>> THEN <<>>
    ELSE LET front == UniqueById(SubSeq(all_results, 1, Len(all_results) - 1))
             x == all_results[Len(all_results)]
         IN IF \E i \in 1..Len(front) : front[i].id = x.id
            THEN [i \in 1..Len(front) |-> IF front[i].id = x.id THEN x ELSE front[i]]
            ELSE Append(front, x)

\* MemoryRetrieval.retrieve_by_association: every [ret, hops, left]
RetrieveByAssociation(db, seed_concepts, max_depth, now) ==
    {[ret |-> StableSortByImportance(UniqueById(o.all)), hops |-> o.hops, left |-> o.left] :
        o \in AssocHops(db, max_depth, ToSet(seed_concepts), ToSet(seed_concepts),
                        [all |-> <<>>, hops |-> <<>>], now)}

\* ------------------------------------------------------------------ inputs
cShort == [kind |-> "str", text |-> <<"x">>]
cLong == [kind |-> "str", text |-> [i \in 1..(LongTextLen + 1) |-> "x"]]
cRec == [kind |-> "dict", text |-> <<"{", "}">>]

\* 0.2, 0.5, 0.9 and 1.5 as scores
Score02 == ScoreOne \div 5
Score05 == ScoreOne \div 2
Score09 == (ScoreOne \div 10) * 9
Score15 == (ScoreOne \div 2) * 3

\* the items callers hand to a tier's Store directly: [tier, cls, kw], the
\* object being cls(**kw)
StorePool ==
    { [tier |-> "working", cls |-> "WorkingMemory",
       kw |-> [id |-> "working_a1", content |-> cRec, memory_type |-> "working",
               importance_score |-> Score02, expiry_time |-> 0]],
      [tier |-> "working", cls |-> "WorkingMemory",
       kw |-> [id |-> "working_b2", content |-> cRec, memory_type |-> "working",
               importance_score |-> Score09, expiry_time |-> 0, tags |-> {tAI},
               metadata |-> [type |-> task_execution]]],
      [tier |-> "episodic", cls |-> "EpisodicMemory",
       kw |-> [id |-> "episodic_a1", content |-> cShort, memory_type |-> "episodic",
               importance_score |-> Score05, tags |-> {tai}, access_count |-> 1,
               outcome |-> <<"o", "k">>]],
      [tier |-> "episodic", cls |-> "EpisodicMemory",
       kw |-> [id |-> "episodic_b2", content |-> cShort, memory_type |-> "episodic",
               importance_score |-> Score09, tags |-> {tb}, access_count |-> 2]],
      [tier |-> "semantic", cls |-> "SemanticMemory",
       kw |-> [id |-> "semantic_a1", content |-> cLong, memory_type |-> "semantic",
               importance_score |-> Score15, tags |-> {tAI, tb},
               concept |-> <<"c">>]],
      [tier |-> "semantic", cls |-> "MemoryItem",
       kw |-> [id |-> "p1", content |-> cShort, memory_type |-> "procedural",
               importance_score |-> Score05, tags |-> {tAI}]],
      [tier |-> "semantic", cls |-> "MemoryItem",
       kw |-> [id |-> "p2", content |-> cShort, memory_type |-> "procedural",
               importance_score |-> Score09, tags |-> {tai, tb}]],
      [tier |-> "working", cls |-> "MemoryItem",
       kw |-> [id |-> "p3", content |-> cRec, memory_type |-> "procedural",
               importance_score |-> Score05]] }

IdPool == {e.kw.id : e \in StorePool} \cup {"working_b1"}

\* the facade's store_memory calls: [content, memory_type, kwargs]
StoreMemoryPool ==
    { [content |-> cShort, memory_type |-> "working",
       kwargs |-> [importance_score |-> Score09, tags |-> <<tAI>>]],
      [content |-> cRec, memory_type |-> "working",
       kwargs |-> [importance_score |-> Score15, expiry_time |-> 0, task_id |-> "t1",
                   priority |-> 9]],
      [content |-> cShort, memory_type |-> "episodic",
       kwargs |-> [outcome |-> <<"o", "k">>, metadata |-> [type |-> task_execution]]],
      [content |-> cLong, memory_type |-> "semantic",
       kwargs |-> [concept |-> <<"c">>, tags |-> <<tAI, tb>>,
                   importance_score |-> Score09]],
      [content |-> cShort, memory_type |-> "procedural", kwargs |-> EmptyDict] }

\* the queries of the facade's search_memories calls
QueryPool ==
    { EmptyDict,
      [limit |-> 1],
      [limit |-> 2],
      [tags |-> <<tAI>>, min_importance |-> Score05],
      [tags |-> <<tai>>],
      [tags |-> <<tUnderscore>>],
      [created_after |-> 0],
      [memory_types |-> <<"semantic", "episodic">>, limit |-> 1] }

\* the contexts passed to retrieve_by_context
ContextPool ==
    { EmptyDict,
      [keywords |-> <<tAI>>],
      [importance_threshold |-> Score05, time_range |-> [start |-> 0 - 1]] }

\* similarity thresholds: 0.5 and the default 0.7
ThresholdPool == {SimOne \div 2, (SimOne \div 10) * 7}

\* ------------------------------------------------------------------- state
VARIABLES
    db,        \* db[t]: the memory_items table of tier t's database file
    now,       \* datetime.now(), in hours
    last,      \* the last call made: its arguments and what it returned
    handed,    \* handed[t][id]: the object last handed to tier t's store under id
    nStoreOps, \* direct Store.store calls so far
    task       \* _consolidation_task, the task running consolidation_loop

vars == <<db, now, last, handed, nStoreOps, fault, task>>

Idle == [op |-> "idle"]

\* asyncio.create_task(consolidation_loop()): the task exists and has not
\* run yet. pc is where the coroutine stands, wake the time its sleep is
\* due, must_cancel the cancellation request of Task.cancel(); started and
\* finished count the consolidate_memories calls of the loop
NewTask ==
    [pc |-> "created", wake |-> 0, must_cancel |-> FALSE, started |-> 0, finished |-> 0]

\* MemorySystem.__init__: three stores, each on a fresh database
Init ==
    /\ db = [t \in Tiers |-> <<>>]
    /\ now = 0
    /\ last = Idle
    /\ handed = [t \in Tiers |-> EmptyDict]
    /\ nStoreOps = 0
    /\ fault = [t \in MemoryType |-> "none"]
    /\ task = NewTask

RowIds(rows) == {rows[i].id : i \in 1..Len(rows)}
RowSet(rows) == {rows[i] : i \in 1..Len(rows)}

\* the objects of handed whose rows are still in db2
Prune(h, db2) ==
    [t \in DOMAIN h |->
        [id \in DOMAIN h[t] \cap RowIds(db2[t])
            |-> h[t][id]]]

\* a caller builds an item and calls stores[tier].store(item)
Store(e) ==
    /\ last = Idle
    /\ nStoreOps < MaxStoreOps
    /\ LET item == DataclassInit(e.cls, e.kw, now).val IN
       /\ \E rows \in Store_store(e.tier, db[e.tier], item) :
              db' = [db EXCEPT ![e.tier] = rows]
       /\ handed' = IF Store_ok(e.tier)
                     THEN [handed EXCEPT ![e.tier] = (item.id :> item) @@ @]
                     ELSE handed
       /\ last' = [op |-> "store", tier |-> e.tier, id |-> item.id,
                    ret |-> Store_ok(e.tier), pre |-> db]
    /\ nStoreOps' = nStoreOps + 1
    /\ UNCHANGED <<now, fault, task>>

\* a caller calls stores[tier].delete(item_id)
Delete(tier, item_id) ==
    /\ last = Idle
    /\ LET d == Store_delete(tier, db[tier], item_id) IN
       /\ db' = [db EXCEPT ![tier] = d.rows]
       /\ handed' = Prune(handed, db')
       /\ last' = [op |-> "delete", tier |-> tier, id |-> item_id, ret |-> d.ret,
                    pre |-> db]
    /\ UNCHANGED <<now, nStoreOps, fault, task>>

\* a caller calls the facade's store_memory
StoreMemoryCall(content, memory_type, kwargs, u) ==
    /\ last = Idle
    /\ \E o \in StoreMemory(db, content, memory_type, kwargs, u, now) :
        /\ db' = o.db
        /\ handed' = IF o.stored = <<>> THEN handed
                     ELSE [handed EXCEPT ![memory_type] = (o.item_id :> o.stored[1]) @@ @]
        /\ last' = [op |-> "store_memory", content |-> content,
                    memory_type |-> memory_type, kwargs |-> kwargs,
                    item_id |-> o.item_id,
                    fresh |-> \A t \in DOMAIN db : o.item_id \notin RowIds(db[t]),
                    exc |-> o.exc, ret |-> o.ret, pre |-> db]
    /\ UNCHANGED <<now, nStoreOps, fault, task>>

\* a retrieve_memory that touches the item it finds, as retrieve_by_context
\* touches its results
RetrieveMemoryTouching(item_id) ==
    /\ last = Idle
    /\ last' = [op |-> "retrieve_memory", id |-> item_id,
                ret |-> RetrieveMemory(db, item_id, now)]
    /\ db' = [t \in DOMAIN db |->
                 LET r == Store_retrieve(t, db[t], item_id, now) IN
                 IF r.found
                 THEN CHOOSE rows \in Store_update(t, db[t], Touch(r.item, now)) : TRUE
                 ELSE db[t]]
    /\ UNCHANGED <<now, handed, nStoreOps, fault, task>>

\* a caller calls the facade's retrieve_memory
RetrieveMemoryCall(item_id) ==
    /\ last = Idle
    /\ last' = [op |-> "retrieve_memory", id |-> item_id,
                ret |-> RetrieveMemory(db, item_id, now)]
    /\ UNCHANGED <<db, now, handed, nStoreOps, fault, task>>

\* a caller calls the facade's search_memories
SearchMemoriesCall(query) ==
    /\ last = Idle
    /\ \E r \in SearchMemories(db, query, now) :
           last' = [op |-> "search_memories", query |-> query, ret |-> r]
    /\ UNCHANGED <<db, now, handed, nStoreOps, fault, task>>

\* one call of consolidation.consolidate_memories()
Consolidate ==
    /\ last = Idle
    /\ \E o \in ConsolidateMemories(db, now) :
        /\ db' = o.db
        /\ handed' = Prune(handed, o.db)
        /\ last' = [op |-> "consolidate_memories", exc |-> o.exc,
                    stats |-> IF o.exc = "" THEN o.stats ELSE NoStats,
                    pre |-> db, handed |-> handed, at |-> now]
    /\ UNCHANGED <<now, nStoreOps, fault, task>>

\* a caller calls retrieval.retrieve_by_context(context)
RetrieveByContextCall(context) ==
    /\ last = Idle
    /\ \E o \in RetrieveByContext(db, context, now) :
        /\ db' = o.db
        /\ last' = [op |-> "retrieve_by_context", context |-> context,
                    ret |-> o.ret, pre |-> db]
    /\ UNCHANGED <<now, handed, nStoreOps, fault, task>>

\* a caller calls retrieval.retrieve_similar with an item it stored earlier
RetrieveSimilarCall(tier, item_id, similarity_threshold) ==
    /\ last = Idle
    /\ item_id \in DOMAIN handed[tier]
    /\ \E r \in RetrieveSimilar(db, handed[tier][item_id], similarity_threshold, now) :
           last' = [op |-> "retrieve_similar", reference |-> handed[tier][item_id],
                    threshold |-> similarity_threshold, ret |-> r]
    /\ UNCHANGED <<db, now, handed, nStoreOps, fault, task>>

\* a caller awaits asyncio.gather of one consolidate_memories() and one
\* retrieve_by_context(context): neither coroutine suspends, so the one listed
\* first runs to its end before the other starts
GatherRunAndRetrieve(context, first) ==
    /\ last = Idle
    /\ \E o \in IF first = "consolidate_memories"
                THEN UNION {{[run |-> c, got |-> r] :
                               r \in RetrieveByContext(c.db, context, now)} :
                            c \in ConsolidateMemories(db, now)}
                ELSE UNION {{[run |-> c, got |-> r] :
                               c \in ConsolidateMemories(r.db, now)} :
                            r \in RetrieveByContext(db, context, now)} :
        LET final == IF first = "consolidate_memories" THEN o.got.db ELSE o.run.db IN
        /\ db' = final
        /\ handed' = Prune(handed, final)
        /\ last' = [op |-> "gather", first |-> first, context |-> context,
                    exc |-> o.run.exc, ret |-> o.got.ret,
                    pre |-> db, handed |-> handed, at |-> now]
    /\ UNCHANGED <<now, nStoreOps, fault, task>>

\* a caller calls the facade's get_memory_stats
GetMemoryStatsCall ==
    /\ last = Idle
    /\ \E st \in GetMemoryStats(db, now) :
           last' = [op |-> "get_memory_stats", ret |-> st]
    /\ UNCHANGED <<db, now, handed, nStoreOps, fault, task>>

\* an hour passes
Tick ==
    /\ last = Idle
    /\ now < MaxTime
    /\ now' = now + 1
    /\ UNCHANGED <<db, last, handed, nStoreOps, fault, task>>

\* the caller takes the returned value (or the exception); the next call follows
Return ==
    /\ last # Idle
    /\ last' = Idle
    /\ UNCHANGED <<db, now, handed, nStoreOps, fault, task>>

Next ==
    \/ \E e \in StorePool : Store(e)
    \/ \E t \in Tiers, i \in IdPool : Delete(t, i)
    \/ \E c \in StoreMemoryPool, u \in UuidPool :
           StoreMemoryCall(c.content, c.memory_type, c.kwargs, u)
    \/ \E i \in IdPool : RetrieveMemoryCall(i)
    \/ \E q \in QueryPool : SearchMemoriesCall(q)
    \/ \E c \in ContextPool : RetrieveByContextCall(c)
    \/ \E t \in Tiers, i \in IdPool, th \in ThresholdPool : RetrieveSimilarCall(t, i, th)
    \/ \E c \in ContextPool, f \in {"consolidate_memories", "retrieve_by_context"} :
           GatherRunAndRetrieve(c, f)
    \/ GetMemoryStatsCall
    \/ Consolidate
    \/ Tick
    \/ Return

Spec == Init /\ [][Next]_vars

\* ------------------------------------------------------- persistence faults
\* the state of one store's file between two calls: "unreadable" (the file
\* cannot be opened: sqlite3.connect raises in every method of that store),
\* "unwritable" (another connection holds the write lock, or the disk is
\* full: INSERT, DELETE and commit raise, SELECT succeeds) or "none"
FaultKinds == {"none", "unwritable", "unreadable"}

\* the file of one store changes state; the files of the other stores stay
\* as they are
PersistenceFault ==
    /\ last = Idle
    /\ \E t \in DOMAIN db, k \in FaultKinds :
           /\ k # fault[t]
           /\ fault' = [fault EXCEPT ![t] = k]
    /\ UNCHANGED <<db, now, last, handed, nStoreOps, task>>

NextFault ==
    \/ Next
    \/ PersistenceFault

SpecFault == Init /\ [][NextFault]_vars

\* --------------------------------------------- _consolidate_to_longterm alone
\* metadata['type'] values: absent, the six indicators and two other words,
\* each bare, prefixed, suffixed or both
TypeWords ==
    ToSet(ExperientialIndicators) \cup {<<"n","o","t","e">>, <<"t","a","s","k">>}

TypePool == {pre \o w \o suf : pre \in {<<>>, <<"x", "_">>}, w \in TypeWords,
                               suf \in {<<>>, <<"s">>}}

\* the expired Working items _consolidate_to_longterm is applied to
PromotionInputs ==
    { DataclassInit("WorkingMemory",
          [id |-> "working_a1", content |-> cShort, memory_type |-> "working",
           importance_score |-> Score09, expiry_time |-> 0, created_at |-> 0,
           last_accessed |-> 0, metadata |-> m], 0).val :
        m \in {EmptyDict} \cup {[type |-> ty] : ty \in TypePool} }

\* a call of consolidation._consolidate_to_longterm(item)
ConsolidateToLongtermCall(item, u) ==
    /\ last = Idle
    /\ \E o \in ConsolidateToLongterm(db, item, u, now) :
        /\ db' = o.db
        /\ last' = [op |-> "_consolidate_to_longterm", item |-> item,
                    target |-> o.target, item_id |-> o.target \o "_" \o u,
                    exc |-> o.exc, pre |-> db]
    /\ UNCHANGED <<now, handed, nStoreOps, fault, task>>

NextPromotion ==
    \/ \E item \in PromotionInputs, u \in UuidPool : ConsolidateToLongtermCall(item, u)
    \/ Tick
    \/ Return

SpecPromotion == Init /\ [][NextPromotion]_vars

\* ------------------------------------------------------------------ claims
AllRows == UNION {RowSet(db[t]) : t \in Tiers}

\* C1: every item held in any tier's store has 0 <= importance_score <= 1
C1_ImportanceInUnitInterval ==
    \A t \in Tiers : \A r \in RowSet(db[t]) :
        r.importance_score >= 0 /\ r.importance_score <= ScoreOne

\* what the attributes A of a store_memory call say about the item's
\* tier-specific fields
AttrsKept(item, kwargs) ==
    CASE item.memory_type = "working" ->
             /\ item.ext.task_id = Get(kwargs, "task_id", NoneStr)
             /\ "expiry_time" \in DOMAIN kwargs => item.ext.expiry_time = kwargs.expiry_time
             /\ item.ext.priority = Get(kwargs, "priority", 5)
      [] item.memory_type = "episodic" ->
             /\ item.ext.context = Get(kwargs, "context", EmptyDict)
             /\ item.ext.participants = Get(kwargs, "participants", <<>>)
             /\ item.ext.outcome = Get(kwargs, "outcome", NoneStr)
             /\ item.ext.lessons_learned = Get(kwargs, "lessons_learned", <<>>)
      [] item.memory_type = "semantic" ->
             /\ item.ext.concept = Get(kwargs, "concept", <<>>)
             /\ item.ext.relationships = Get(kwargs, "relationships", EmptyDict)
             /\ item.ext.confidence_score = Get(kwargs, "confidence_score", ScoreOne)
             /\ item.ext.source = Get(kwargs, "source", NoneStr)
      [] OTHER -> TRUE

\* C2: round trip, as the repository's test states it: store_memory(C, T, A)
\* for a tier T returns an id, and retrieve_memory(id) then returns an item
\* with content C, tier T, and the base and tier-specific attributes of A
C2_StoreRetrieveRoundTrip ==
    (last.op = "store_memory" /\ last.memory_type \in Tiers) =>
        /\ last.exc = ""
        /\ last.ret # ""
        /\ LET r == RetrieveMemory(db, last.ret, now) IN
           /\ r.found
           /\ r.item.content = last.content
           /\ r.item.memory_type = last.memory_type
           /\ r.item.tags = ToSet(Get(last.kwargs, "tags", <<>>))
           /\ r.item.importance_score = Get(last.kwargs, "importance_score", Score05)
           /\ AttrsKept(r.item, last.kwargs)

\* the tiers a facade query names
QueryTiers(q) == ToSet(Get(q, "memory_types", StoreOrder)) \cap Tiers

\* the filters of a query as the specification reads them: every listed tag
\* is one of the item's tags
RowSatisfies(row, q) ==
    /\ "min_importance" \in DOMAIN q => row.importance_score >= q.min_importance
    /\ "tags" \in DOMAIN q => ToSet(q.tags) \subseteq ToSet(JsonLoadsList(row.tags))
    /\ "created_after" \in DOMAIN q => row.created_at > q.created_after

SeqIds(items) == {items[i].id : i \in 1..Len(items)}

\* C3: search returns only items that satisfy every filter (exact tag
\* equality), and every stored item that satisfies them when the matches do
\* not exceed the limit
C3_SearchSoundAndComplete ==
    last.op = "search_memories" =>
        LET q == last.query
            matching == {r \in UNION {RowSet(db[t]) : t \in QueryTiers(q)} :
                            RowSatisfies(r, q)}
        IN /\ SeqIds(last.ret) \subseteq {r.id : r \in matching}
           /\ Cardinality(matching) <= Get(q, "limit", DefaultLimit)
                  => {r.id : r \in matching} \subseteq SeqIds(last.ret)

\* C4: the facade's search returns at most limit items, from the requested
\* tiers only, ordered by (importance_score desc, last_accessed desc), and
\* they are the first limit items of that ordering over all rows of the
\* requested tiers that pass the store's filter
C4_SearchTopLimitOrdered ==
    last.op = "search_memories" =>
        LET q == last.query
            limit == Get(q, "limit", DefaultLimit)
            cand == {r \in UNION {RowSet(db[t]) : t \in QueryTiers(q)} :
                        RowMatches(r, q)}
            ret == last.ret
        IN /\ Len(ret) = Min(limit, Cardinality(cand))
           /\ SeqIds(ret) \subseteq {r.id : r \in cand}
           /\ \A i, j \in 1..Len(ret) : i < j => ~RowBefore(ret[j], ret[i])
           /\ \A r \in cand : r.id \notin SeqIds(ret) =>
                  \A i \in 1..Len(ret) : ~RowBefore(r, ret[i])

\* the fields _should_consolidate reads, as the row holds them
RowView(row) ==
    [ importance_score |-> row.importance_score,
      access_count |-> row.access_count,
      content |-> PickleLoads(row.content) ]

\* the Working items of the run's start whose expiry_time had passed
ExpiredAtRunStart ==
    {r \in RowSet(last.pre["working"]) :
        /\ r.id \in DOMAIN last.handed["working"]
        /\ last.handed["working"][r.id].cls = "WorkingMemory"
        /\ last.at > last.handed["working"][r.id].ext.expiry_time}

\* the rows of the long-term tiers that the run created
CreatedByRun ==
    UNION {{r \in RowSet(db[t]) : r.id \notin RowIds(last.pre[t])} :
              t \in {"episodic", "semantic"}}

\* C5: after one consolidation run no Working item whose expiry_time had
\* passed is left in the Working tier, and one that fails the promotion
\* predicate is in no tier
C5_ExpiredWorkingRemoved ==
    last.op = "consolidate_memories" =>
        \A r \in ExpiredAtRunStart :
            /\ r.id \notin RowIds(db["working"])
            /\ ~ShouldConsolidate(RowView(r)) =>
                   /\ \A t \in Tiers : r.id \notin RowIds(db[t])
                   /\ \A n \in CreatedByRun : n.content # r.content

\* C6: after one consolidation run every expired Working item that satisfies
\* the promotion predicate has exactly one replacement in a long-term tier,
\* with its content, created_at, last_accessed, access_count,
\* importance_score, tags and metadata, and is gone from the Working tier
C6_ExpiredWorkingPromoted ==
    last.op = "consolidate_memories" =>
        \A r \in ExpiredAtRunStart :
            ShouldConsolidate(RowView(r)) =>
                /\ r.id \notin RowIds(db["working"])
                /\ Cardinality({n \in CreatedByRun :
                       /\ n.content = r.content
                       /\ n.created_at = r.created_at
                       /\ n.last_accessed = r.last_accessed
                       /\ n.access_count = r.access_count
                       /\ n.importance_score = r.importance_score
                       /\ ToSet(JsonLoadsList(n.tags)) = ToSet(JsonLoadsList(r.tags))
                       /\ n.metadata = r.metadata}) = 1

\* C7: promotion selects the Episodic tier exactly when metadata.type is one
\* of the six experiential types, and the Semantic tier otherwise
C7_EpisodicIffExactType ==
    last.op = "_consolidate_to_longterm" =>
        (last.target = "episodic"
            <=> Get(last.item.metadata, "type", <<>>) \in ToSet(ExperientialIndicators))

\* the rows of one tier at the run's start that share a canonical content
DuplicateGroups(rows) ==
    {g \in {{r \in RowSet(rows) : Md5(Str(PickleLoads(r.content))) = h} :
               h \in {Md5(Str(PickleLoads(r.content))) : r \in RowSet(rows)}} :
        Cardinality(g) > 1}

RECURSIVE SumAccessCounts(_)
SumAccessCounts(S) ==
    IF S = {} THEN 0
    ELSE LET x == CHOOSE y \in S : TRUE
         IN x.access_count + SumAccessCounts(S \ {x})

\* C8: after one consolidation run every group of two or more items of a tier
\* with the same canonical content has one survivor, a member of highest
\* importance_score, holding the union of the tags, the sum of the
\* access_counts and the latest last_accessed of the group
C8_DuplicatesMerged ==
    last.op = "consolidate_memories" =>
        \A t \in Tiers : \A g \in DuplicateGroups(last.pre[t]) :
            LET left == {r \in RowSet(db[t]) : r.id \in {m.id : m \in g}} IN
            /\ Cardinality(left) = 1
            /\ \A s \in left :
                /\ \A m \in g : m.id = s.id =>
                       \A o \in g : m.importance_score >= o.importance_score
                /\ ToSet(JsonLoadsList(s.tags)) =
                       UNION {ToSet(JsonLoadsList(m.tags)) : m \in g}
                /\ s.access_count = SumAccessCounts(g)
                /\ \A m \in g : s.last_accessed >= m.last_accessed
                /\ \E m \in g : s.last_accessed = m.last_accessed

\* C9: no id is held by two items, within a tier or across tiers, and an id
\* the facade generates is the id of no item already stored
C9_IdsUnique ==
    /\ \A t1, t2 \in Tiers : \A i \in 1..Len(db[t1]), j \in 1..Len(db[t2]) :
           db[t1][i].id = db[t2][j].id => (t1 = t2 /\ i = j)
    /\ last.op = "store_memory" => last.fresh

\* C10: after N stores of items with pairwise distinct ids into empty stores
\* (nothing deleted or replaced), search with limit N returns exactly those
\* N ids, each once
C10_StoresAllFound ==
    (/\ last.op = "search_memories"
     /\ last.query = [limit |-> nStoreOps]
     /\ Cardinality(AllRows) = nStoreOps
     /\ Cardinality({r.id : r \in AllRows}) = nStoreOps
     /\ \A t \in Tiers : RowIds(db[t]) = DOMAIN handed[t]) =>
        /\ Len(last.ret) = nStoreOps
        /\ SeqIds(last.ret) = {r.id : r \in AllRows}

\* ---------------------------------------------------- the background loop
\* a loop whose except clause also catches the cancellation (a bare except,
\* or CancelledError deriving from Exception as before Python 3.8)
CancelSwallowed(t) == FALSE

\* a loop that spawns the run (asyncio.create_task) and does not await it
SpawnRun(t) == [t EXCEPT !.started = @ + 1]

\* `except Exception` in consolidation_loop does not catch
\* asyncio.CancelledError (a BaseException since Python 3.8, the version
\* start.py requires): a cancellation request ends the loop at its next step
CancelRequested(t) == t.must_cancel

\* `await self.consolidation.consolidate_memories()`: the loop goes on only
\* when the run has returned or raised
AwaitRun(t) == [t EXCEPT !.started = @ + 1, !.finished = @ + 1]

\* the event loop runs the new task for the first time: it enters the while
\* loop and suspends in asyncio.sleep(6 * 3600)
LoopStart ==
    /\ last = Idle
    /\ task.pc = "created"
    /\ ~CancelRequested(task)
    /\ task' = [task EXCEPT !.pc = "sleeping", !.wake = now + SleepHours]
    /\ UNCHANGED <<db, now, last, handed, nStoreOps, fault>>

\* nothing else happens until the sleep is due; the timer then makes the
\* task runnable
TimerFires ==
    /\ last = Idle
    /\ task.pc = "sleeping"
    /\ ~CancelRequested(task)
    /\ task.started < MaxRuns
    /\ now' = Max(now, task.wake)
    /\ task' = [task EXCEPT !.pc = "woken"]
    /\ UNCHANGED <<db, last, handed, nStoreOps, fault>>

\* the task resumes after the sleep: one consolidate_memories run, which has
\* no suspension point (every awaited Store method runs sqlite3 calls
\* synchronously), then the except clause if it raised, then the next sleep
LoopRun ==
    /\ last = Idle
    /\ task.pc = "woken"
    /\ ~CancelRequested(task)
    /\ task.started < MaxRuns
    /\ \E o \in ConsolidateMemories(db, now) :
        /\ db' = o.db
        /\ handed' = Prune(handed, o.db)
    /\ task' = [AwaitRun(task) EXCEPT !.pc = "sleeping", !.wake = now + SleepHours]
    /\ UNCHANGED <<now, last, nStoreOps, fault>>

\* the task's next step after Task.cancel(): CancelledError is thrown into
\* the coroutine (or the coroutine is never started) and the task is done
TaskCancelled ==
    /\ last = Idle
    /\ task.pc # "done"
    /\ task.must_cancel
    /\ task' = [task EXCEPT !.pc = "done"]
    /\ UNCHANGED <<db, now, last, handed, nStoreOps, fault>>

\* MemorySystem.cleanup: Task.cancel() requests the cancellation of a task
\* that is not done
Cleanup ==
    /\ last = Idle
    /\ task' = IF task.pc = "done" THEN task ELSE [task EXCEPT !.must_cancel = TRUE]
    /\ last' = [op |-> "cleanup"]
    /\ UNCHANGED <<db, now, handed, nStoreOps, fault>>

NextLoop ==
    \/ LoopStart
    \/ TimerFires
    \/ LoopRun
    \/ TaskCancelled
    \/ Cleanup
    \/ \E e \in StorePool : Store(e)
    \/ Tick
    \/ Return

SpecLoop == Init /\ [][NextLoop]_vars

\* C11: while the database file of a store is unusable, that store's store
\* and delete return False, its retrieve gives not-found and its search the
\* empty list (so the facade finds and lists only what a readable store
\* holds), a consolidation run raises nothing and leaves that store's table
\* as it was, the facade's store_memory for that tier returns the empty id
\* without raising, and no table is changed by the failed call
C11_FaultsAreValues ==
    /\ (last.op \in {"store", "delete"} /\ fault[last.tier] # "none") =>
           (last.ret = FALSE /\ db = last.pre)
    /\ last.op = "consolidate_memories" =>
           \A t \in DOMAIN db :
               fault[t] # "none" => (last.exc = "" /\ db[t] = last.pre[t])
    /\ (last.op = "store_memory" /\ fault[last.memory_type] # "none") =>
           (last.exc = "" /\ last.ret = "" /\ db = last.pre)
    /\ (last.op = "retrieve_memory" /\ last.ret.found) =>
           \E t \in DOMAIN db : fault[t] # "unreadable" /\ last.id \in RowIds(db[t])
    /\ last.op = "search_memories" =>
           \A i \in 1..Len(last.ret) :
               \E t \in DOMAIN db :
                   fault[t] # "unreadable" /\ last.ret[i].id \in RowIds(db[t])
\* the tier-specific fields the data model gives neither a default nor the
\* word optional
RequiredFields(memory_type) ==
    CASE memory_type = "working" -> {"priority"}
      [] memory_type = "episodic" -> {"context", "participants", "lessons_learned"}
      [] memory_type = "semantic" -> {"concept", "relationships"}
      [] OTHER -> {}

\* C12: a store_memory call that leaves out a required tier-specific field
\* of its tier is answered with the failure indicator (the empty id, nothing
\* raised) and changes no table
C12_MissingFieldRejected ==
    (/\ last.op = "store_memory"
     /\ last.memory_type \in Tiers
     /\ ~(RequiredFields(last.memory_type) \subseteq DOMAIN last.kwargs)) =>
        (last.exc = "" /\ last.ret = "" /\ db = last.pre)

\* C14: the background loop's runs never overlap: at most one run has been
\* started and not finished, and a run is started only when every earlier
\* run has finished
C14_RunsNeverOverlap ==
    /\ [](task.started - task.finished \in {0, 1})
    /\ [][task'.started > task.started => task.started = task.finished]_vars

\* two runs of the loop have taken place
C14_TwoRunsDone == task.started = 2 /\ task.finished = 2

\* C15: once cleanup has requested the cancellation no run is started any
\* more, and neither cleanup nor the ending of the task changes a table
C15_NoRunAfterCleanup ==
    [][/\ task.must_cancel => task'.started = task.started
       /\ (task'.must_cancel /\ ~task.must_cancel) => db' = db
       /\ (task'.pc = "done" /\ task.pc # "done") => db' = db]_vars

\* cleanup was called after the loop had run, with rows in the tables, and
\* the task has ended
C15_CleanedUpAfterRun ==
    /\ task.must_cancel
    /\ task.pc = "done"
    /\ task.started >= 1
    /\ \E t \in Tiers : db[t] # <<>>

\* C16: a consolidation run is not one indivisible step: the step that
\* starts a run does not also finish it, so that foreground calls can take
\* steps while the run is in progress
C16_RunIsInterruptible ==
    [][task'.started > task.started => task'.finished = task.finished]_vars

\* C13: a consolidation run lets no exception out, carries out every step
\* (the importance sweep is marked in its counters) and deals with every
\* expired Working item, whatever happens while one item is processed
C13_RunIsolatesFailures ==
    last.op = "consolidate_memories" =>
        /\ last.exc = ""
        /\ last.stats.importance_updated = 1
        /\ \A r \in ExpiredAtRunStart : r.id \notin RowIds(db["working"])

\* the tiers, as positions of the probe order, whose store holds a row with
\* the id
HoldingTiers(item_id) ==
    {i \in 1..Len(StoreOrder) : item_id \in RowIds(db[StoreOrder[i]])}

\* C19: retrieve_memory(id) returns not-found exactly when no tier's store
\* holds the id, and otherwise returns the item of the first tier, in the
\* order working, episodic, semantic, that holds it
C19_RetrieveFindsFirstHolder ==
    last.op = "retrieve_memory" =>
        LET holders == HoldingTiers(last.id) IN
        /\ last.ret.found <=> holders # {}
        /\ last.ret.found =>
               LET first == StoreOrder[CHOOSE i \in holders : \A j \in holders : i <= j]
                   row == CHOOSE r \in RowSet(db[first]) : r.id = last.id
               IN /\ last.ret.item.id = last.id
                  /\ last.ret.item.memory_type = row.memory_type
                  /\ last.ret.item.importance_score = row.importance_score
                  /\ last.ret.item.access_count = row.access_count

\* a stored row read as the item it holds, for the fields similarity uses
RowAsItem(row) ==
    [id |-> row.id, tags |-> ToSet(JsonLoadsList(row.tags)),
     content |-> PickleLoads(row.content), created_at |-> row.created_at]

\* C20: retrieve_similar(reference, threshold), for a reference of a tier,
\* returns exactly the stored items of that tier other than the reference
\* whose similarity to it is at least the threshold, most similar first
C20_SimilarExactlyAboveThreshold ==
    (last.op = "retrieve_similar" /\ last.reference.memory_type \in Tiers) =>
        LET ref == last.reference
            cand == {r \in RowSet(db[ref.memory_type]) :
                        /\ r.memory_type = ref.memory_type
                        /\ r.id # ref.id
                        /\ CalculateSimilarity(ref, RowAsItem(r)) >= last.threshold}
            ret == last.ret
        IN /\ SeqIds(ret) = {r.id : r \in cand}
           /\ Len(ret) = Cardinality(cand)
           /\ \A i, j \in 1..Len(ret) :
                  i < j => CalculateSimilarity(ref, ret[i]) >= CalculateSimilarity(ref, ret[j])

\* ------------------------------------------------- associative retrieval
cWords == [kind |-> "str", text |-> <<"A", "I", "A", "I", " ", "b">>]

\* the items handed to the stores before associative retrieval: [tier, cls, kw]
AssocPool ==
    { [tier |-> "semantic", cls |-> "MemoryItem",
       kw |-> [id |-> "q1", content |-> cShort, memory_type |-> "procedural",
               importance_score |-> Score09, tags |-> {tAI, tb}]],
      [tier |-> "episodic", cls |-> "MemoryItem",
       kw |-> [id |-> "q2", content |-> cWords, memory_type |-> "procedural",
               importance_score |-> Score05, tags |-> {tb}]],
      [tier |-> "working", cls |-> "MemoryItem",
       kw |-> [id |-> "q3", content |-> cRec, memory_type |-> "procedural",
               importance_score |-> Score05, tags |-> {tAI}]],
      [tier |-> "working", cls |-> "MemoryItem",
       kw |-> [id |-> "q1", content |-> cShort, memory_type |-> "procedural",
               importance_score |-> Score02, tags |-> {tb}]],
      [tier |-> "episodic", cls |-> "EpisodicMemory",
       kw |-> [id |-> "episodic_a1", content |-> cShort, memory_type |-> "episodic",
               importance_score |-> Score05, tags |-> {tai}]] }

\* the seed_concepts and max_depth arguments
SeedPool == {<<tAI>>, <<tb>>, <<tAI, tb>>, <<>>}
DepthPool == {1, DefaultMaxDepth}

\* a caller calls retrieval.retrieve_by_association(seed_concepts, max_depth)
RetrieveByAssociationCall(seed_concepts, max_depth) ==
    /\ last = Idle
    /\ \E o \in RetrieveByAssociation(db, seed_concepts, max_depth, now) :
           last' = [op |-> "retrieve_by_association", seeds |-> seed_concepts,
                    max_depth |-> max_depth, ret |-> o.ret, hops |-> o.hops,
                    left |-> o.left]
    /\ UNCHANGED <<db, now, handed, nStoreOps, fault, task>>

NextAssoc ==
    \/ \E e \in AssocPool : Store(e)
    \/ \E sc \in SeedPool, d \in DepthPool : RetrieveByAssociationCall(sc, d)
    \/ Tick
    \/ Return

SpecAssoc == Init /\ [][NextAssoc]_vars

\* C21: at each hop of retrieve_by_association every stored item of every
\* tier that carries at least one concept of the hop's frontier as a tag is
\* among the hop's results (fewer than the limit per tier being tagged so)
C21_AssocExpandsByAny ==
    last.op = "retrieve_by_association" =>
        \A h \in 1..Len(last.hops) :
            \A t \in Tiers : \A r \in RowSet(db[t]) :
                ToSet(JsonLoadsList(r.tags)) \cap last.hops[h].frontier # {}
                    => r.id \in SeqIds(last.hops[h].results)

\* C30: retrieve_by_association makes at most max_depth hops and stops
\* earlier only when the frontier is empty; no frontier after the first holds
\* a seed or a concept of an earlier frontier; the returned list holds each
\* id at most once and is in descending importance_score order
C30_AssocBoundedFreshUnique ==
    last.op = "retrieve_by_association" =>
        LET hops == last.hops
            ret == last.ret
        IN /\ Len(hops) <= last.max_depth
           /\ Len(hops) < last.max_depth => last.left = {}
           /\ \A i \in 1..Len(hops) : hops[i].frontier # {}
           /\ \A i \in 2..Len(hops) :
                  /\ hops[i].frontier \cap ToSet(last.seeds) = {}
                  /\ \A j \in 1..(i - 1) : hops[i].frontier \cap hops[j].frontier = {}
           /\ \A i, j \in 1..Len(ret) :
                  i < j => /\ ret[i].id # ret[j].id
                           /\ ret[i].importance_score >= ret[j].importance_score

\* a call that made a second hop, found an item again in it and returned two
\* items
C30_SecondHopFindsItemAgain ==
    /\ last.op = "retrieve_by_association"
    /\ Len(last.hops) >= 2
    /\ SeqIds(last.hops[1].results) \cap SeqIds(last.hops[2].results) # {}
    /\ Len(last.ret) >= 2

\* ------------------------------ retrieval over a store of readable items
\* MemoryRetrieval({MemoryType.PROCEDURAL: SQLiteMemoryStore(...)}): the one
\* memory type whose rows _row_to_memory_item can build
ProceduralOnly == {"procedural"}

InitRetrieval ==
    /\ db = [t \in ProceduralOnly |-> <<>>]
    /\ now = 0
    /\ last = Idle
    /\ handed = [t \in ProceduralOnly |-> EmptyDict]
    /\ nStoreOps = 0
    /\ fault = [t \in MemoryType |-> "none"]
    /\ task = NewTask

\* the items handed to that store
ReadablePool ==
    { [tier |-> "procedural", cls |-> "MemoryItem",
       kw |-> [id |-> "r1", content |-> cShort, memory_type |-> "procedural",
               importance_score |-> Score05, access_count |-> 1, tags |-> {tAI},
               metadata |-> [type |-> task_execution]]],
      [tier |-> "procedural", cls |-> "MemoryItem",
       kw |-> [id |-> "r2", content |-> cRec, memory_type |-> "procedural",
               importance_score |-> Score05, access_count |-> 2, tags |-> {tAI, tb}]],
      [tier |-> "procedural", cls |-> "MemoryItem",
       kw |-> [id |-> "r3", content |-> cShort, memory_type |-> "procedural",
               importance_score |-> Score09]] }

\* the contexts passed to retrieve_by_context on that store
ReadableContextPool == {EmptyDict, [limit |-> 1], [keywords |-> <<tb>>]}

\* a caller calls retrieve_by_context(context) on that MemoryRetrieval
RetrieveReadableCall(context) ==
    /\ last = Idle
    /\ \A r \in RowSet(db["procedural"]) : r.access_count < MaxAccessCount
    /\ \E o \in RetrieveByContextIn(db, <<"procedural">>, context, now) :
        /\ db' = o.db
        /\ last' = [op |-> "retrieve_by_context", context |-> context,
                    ret |-> o.ret, pre |-> db]
    /\ UNCHANGED <<now, handed, nStoreOps, fault, task>>

NextRetrieval ==
    \/ \E e \in ReadablePool : Store(e)
    \/ \E c \in ReadableContextPool : RetrieveReadableCall(c)
    \/ Tick
    \/ Return

SpecRetrieval == InitRetrieval /\ [][NextRetrieval]_vars

\* C22: the list retrieve_by_context returns is in descending
\* importance_score order and, among items of equal importance_score, in
\* descending access_count order
C22_ContextOrderedByImportanceThenAccess ==
    last.op = "retrieve_by_context" =>
        \A i, j \in 1..Len(last.ret) :
            i < j => \/ last.ret[i].importance_score > last.ret[j].importance_score
                     \/ /\ last.ret[i].importance_score = last.ret[j].importance_score
                        /\ last.ret[i].access_count >= last.ret[j].access_count

\* the row of the store with the id, before and after the call
RowOf(rows, item_id) == CHOOSE r \in RowSet(rows) : r.id = item_id

\* C23: after a retrieve_by_context call every returned item's row has
\* access_count one higher than before and last_accessed not earlier, with
\* id, content, memory_type, created_at, importance_score, tags and metadata
\* as before; the rows of the items it did not return are as before, and no
\* row is added or removed
C23_TouchFrame ==
    last.op = "retrieve_by_context" =>
        \A t \in DOMAIN db :
            /\ RowIds(db[t]) = RowIds(last.pre[t])
            /\ \A old \in RowSet(last.pre[t]) :
                   LET new == RowOf(db[t], old.id) IN
                   IF old.id \in SeqIds(last.ret)
                   THEN /\ new.access_count = old.access_count + 1
                        /\ new.last_accessed >= old.last_accessed
                        /\ new.content = old.content
                        /\ new.memory_type = old.memory_type
                        /\ new.created_at = old.created_at
                        /\ new.importance_score = old.importance_score
                        /\ ToSet(JsonLoadsList(new.tags)) = ToSet(JsonLoadsList(old.tags))
                        /\ new.metadata = old.metadata
                   ELSE new = old

\* a call, made an hour after the items were stored, that returned one item
\* carrying tags and metadata and left another item out
C23_TouchedOneLeftOne ==
    /\ last.op = "retrieve_by_context"
    /\ \E i \in 1..Len(last.ret) :
           /\ last.ret[i].tags # {}
           /\ last.ret[i].last_accessed > last.ret[i].created_at
    /\ \E r \in RowSet(db["procedural"]) : r.id \notin SeqIds(last.ret)

\* ------------------------------------------------- the loop, scheduled
\* the latest clock reading the model tells apart
ClockCap == MaxTime + (MaxRuns + 1) * SleepHours

\* `while True`: the sleeps of the iterations after the MaxRuns-th become due
\* as the earlier ones did; started and finished stay at MaxRuns and the
\* clock reading stays at ClockCap from there on
LaterTimerFires ==
    /\ last = Idle
    /\ task.pc = "sleeping"
    /\ ~CancelRequested(task)
    /\ task.started = MaxRuns
    /\ now' = Min(Max(now, task.wake), ClockCap)
    /\ task' = [task EXCEPT !.pc = "woken"]
    /\ UNCHANGED <<db, last, handed, nStoreOps, fault>>

\* the runs of those iterations: consolidate_memories as in LoopRun, then
\* the next sleep
LaterLoopRun ==
    /\ last = Idle
    /\ task.pc = "woken"
    /\ ~CancelRequested(task)
    /\ task.started = MaxRuns
    /\ \E o \in ConsolidateMemories(db, now) :
        /\ db' = o.db
        /\ handed' = Prune(handed, o.db)
    /\ task' = [task EXCEPT !.pc = "sleeping",
                            !.wake = Min(now + SleepHours, ClockCap)]
    /\ UNCHANGED <<now, last, nStoreOps, fault>>

NextLoopForever ==
    \/ NextLoop
    \/ LaterTimerFires
    \/ LaterLoopRun

\* the event loop runs a task that is ready, a due timer fires, time goes
\* on and a caller takes what its call returned
SpecLoopLive ==
    /\ Init /\ [][NextLoopForever]_vars
    /\ WF_vars(LoopStart) /\ WF_vars(TimerFires) /\ WF_vars(LoopRun)
    /\ WF_vars(LaterTimerFires) /\ WF_vars(LaterLoopRun)
    /\ WF_vars(Tick) /\ WF_vars(Return)

\* the Working items in the Working tier, as stored, that are experiential
\* and satisfy the promotion predicate
PromotableExperiential ==
    {id \in DOMAIN handed["working"] :
        LET item == handed["working"][id] IN
        /\ item.cls = "WorkingMemory"
        /\ id \in RowIds(db["working"])
        /\ IsExperiential(item)
        /\ ShouldConsolidate(item)}

\* the item with this id has been promoted: gone from the Working tier, its
\* content held by the Episodic tier
PromotedToEpisodic(id, content) ==
    /\ id \notin RowIds(db["working"])
    /\ \E r \in RowSet(db["episodic"]) : PickleLoads(r.content) = content

\* C24: a Working item with an experiential metadata.type that satisfies the
\* promotion predicate is, while the loop keeps sleeping and running,
\* eventually in the Episodic tier and not in the Working tier, unless the
\* system is shut down
C24_PromotionEventually ==
    \A e \in {p \in StorePool : p.cls = "WorkingMemory"} :
        e.kw.id \in PromotableExperiential
            ~> (PromotedToEpisodic(e.kw.id, e.kw.content) \/ task.must_cancel)

\* the rows of tier t that hold items of that tier
TierRows(t) == {r \in RowSet(db[t]) : r.memory_type = t}

\* C25: get_memory_stats reports for each tier the number of its items, the
\* sum of their access_counts, their mean importance_score (0 when there are
\* none) and their least and greatest created_at (none when there are none)
C25_StatsDescribeTiers ==
    last.op = "get_memory_stats" =>
        \A t \in Tiers :
            LET rows == TierRows(t)
                n == Cardinality(rows)
                st == last.ret[t]
            IN /\ st.total_items = n
               /\ st.total_access_count = SumAccessCounts(rows)
               /\ n = 0 => /\ st.average_importance = 0
                           /\ st.oldest_item = NoneTime
                           /\ st.newest_item = NoneTime
               /\ n > 0 => /\ \E low, high \in rows :
                                 /\ low.importance_score <= st.average_importance
                                 /\ st.average_importance <= high.importance_score
                           /\ \E r \in rows : st.oldest_item = r.created_at
                           /\ \A r \in rows : /\ st.oldest_item <= r.created_at
                                              /\ st.newest_item >= r.created_at
                           /\ \E r \in rows : st.newest_item = r.created_at

\* ------------------------------- consolidation over a store of readable items
\* MemoryConsolidation({MemoryType.WORKING: SQLiteMemoryStore(...),
\* MemoryType.PROCEDURAL: SQLiteMemoryStore(...)}): a working store, and a
\* store of the one memory type whose rows _row_to_memory_item can build
SweepStores == <<"working", "procedural">>

InitSweep ==
    /\ db = [t \in ToSet(SweepStores) |-> <<>>]
    /\ now = 0
    /\ last = Idle
    /\ handed = [t \in ToSet(SweepStores) |-> EmptyDict]
    /\ nStoreOps = 0
    /\ fault = [t \in MemoryType |-> "none"]
    /\ task = NewTask

\* the items handed to those stores
SweepPool ==
    { [tier |-> "procedural", cls |-> "MemoryItem",
       kw |-> [id |-> "m1", content |-> cShort, memory_type |-> "procedural",
               importance_score |-> Score09, access_count |-> 1, tags |-> {tAI},
               metadata |-> [type |-> task_execution]]],
      [tier |-> "procedural", cls |-> "MemoryItem",
       kw |-> [id |-> "m2", content |-> cShort, memory_type |-> "procedural",
               importance_score |-> Score05, access_count |-> 2, tags |-> {tb},
               metadata |-> [type |-> user_interaction, origin |-> tb]]],
      [tier |-> "procedural", cls |-> "MemoryItem",
       kw |-> [id |-> "m3", content |-> cRec, memory_type |-> "procedural",
               importance_score |-> Score02]],
      [tier |-> "working", cls |-> "WorkingMemory",
       kw |-> [id |-> "working_b2", content |-> cRec, memory_type |-> "working",
               importance_score |-> Score09, expiry_time |-> 0, tags |-> {tAI},
               metadata |-> [type |-> task_execution]]] }

\* one consolidate_memories run on those stores
ConsolidateSweep ==
    /\ last = Idle
    /\ \E o \in ConsolidateMemoriesIn(db, SweepStores, now) :
        /\ db' = o.db
        /\ handed' = Prune(handed, o.db)
        /\ last' = [op |-> "consolidate_memories", exc |-> o.exc,
                    stats |-> IF o.exc = "" THEN o.stats ELSE NoStats,
                    pre |-> db, handed |-> handed, at |-> now]
    /\ UNCHANGED <<now, nStoreOps, fault, task>>

\* the three steps of a run
StepNames == {"expire_promote", "update_importance", "merge_duplicates"}

\* the tables one step of a run can leave: the loop over the working items,
\* _update_importance_scores, _merge_duplicates
StepOutcomes(step, tables, at) ==
    CASE step = "expire_promote" ->
             {o.db : o \in UNION {ExpireAndPromote(tables, items, NoStats, at) :
                                     items \in Store_search("working", tables["working"],
                                                   [memory_type |-> "working"], at)}}
      [] step = "update_importance" -> UpdateImportanceScoresIn(tables, SweepStores, at)
      [] OTHER -> {o.db : o \in MergeDuplicatesIn(tables, SweepStores, at)}

\* one step is executed twice in immediate succession
StepTwice(step) ==
    /\ last = Idle
    /\ \E once \in StepOutcomes(step, db, now) :
       \E twice \in StepOutcomes(step, once, now) :
        /\ db' = twice
        /\ handed' = Prune(handed, twice)
        /\ last' = [op |-> "step_twice", step |-> step, pre |-> db,
                    once |-> once, twice |-> twice]
    /\ UNCHANGED <<now, nStoreOps, fault, task>>

NextSweep ==
    \/ \E e \in SweepPool : Store(e)
    \/ ConsolidateSweep
    \/ \E st \in StepNames : StepTwice(st)
    \/ Tick
    \/ Return

SpecSweep == InitSweep /\ [][NextSweep]_vars

\* ------------------------------------------------ runs that raise
\* a str that pickle stores and str.encode() refuses
cBad == [kind |-> "str", text |-> <<LoneSurrogate>>]

\* the items of SweepPool and one whose content cannot be hashed
RunPool ==
    SweepPool \cup
    { [tier |-> "procedural", cls |-> "MemoryItem",
       kw |-> [id |-> "m7", content |-> cBad, memory_type |-> "procedural",
               importance_score |-> Score02]] }

NextRun ==
    \/ \E e \in RunPool : Store(e)
    \/ ConsolidateSweep
    \/ Tick
    \/ Return

SpecRun == InitSweep /\ [][NextRun]_vars

\* C26: after duplicates are merged, the survivor's metadata holds every key
\* of the group's metadata maps, and every key the survivor held before the
\* merge keeps the value the survivor had
C26_MergeKeepsPrimaryMetadata ==
    (last.op = "consolidate_memories"
        \/ (last.op = "step_twice" /\ last.step = "merge_duplicates")) =>
        \A t \in DOMAIN db : \A g \in DuplicateGroups(last.pre[t]) :
            \A s \in {r \in RowSet(db[t]) : r.id \in {m.id : m \in g}} :
                LET primary == CHOOSE m \in g : m.id = s.id
                    merged == JsonLoadsDict(s.metadata)
                    before == JsonLoadsDict(primary.metadata)
                IN /\ DOMAIN merged = UNION {DOMAIN JsonLoadsDict(m.metadata) : m \in g}
                   /\ \A k \in DOMAIN before : merged[k] = before[k]

\* a stored row read as the item it holds, for the fields the importance
\* score is computed from
RowForScoring(row) ==
    [access_count |-> row.access_count, last_accessed |-> row.last_accessed,
     content |-> PickleLoads(row.content), tags |-> ToSet(JsonLoadsList(row.tags)),
     metadata |-> JsonLoadsDict(row.metadata)]

\* C27: after a run every Episodic and Semantic item holds the recomputed
\* score if that differs from its score at the run's start by more than 0.1,
\* and its score at the run's start otherwise
C27_ImportanceRecomputed ==
    last.op = "consolidate_memories" =>
        \A t \in {"episodic", "semantic"} :
            \A old \in {r \in RowSet(last.pre[t]) : r.memory_type = t} :
                \A new \in {r \in RowSet(db[t]) : r.id = old.id} :
                    LET score == CalculateImportance(RowForScoring(old), last.at) IN
                    new.importance_score =
                        IF Abs(score - old.importance_score) * 10 > ScoreOne
                        THEN score ELSE old.importance_score

\* C28: a step of a run executed twice in immediate succession, with no
\* other operation and no passage of time between, leaves the stores as
\* executing it once leaves them
C28_StepsIdempotent ==
    last.op = "step_twice" => last.twice = last.once

\* a step that changed the stores was executed twice
C28_StepChangedStores ==
    /\ last.op = "step_twice"
    /\ last.once # last.pre

\* the rows of tier t at the run's start whose id is no longer in the tier
DeletedByRun(t) == {r \in RowSet(last.pre[t]) : r.id \notin RowIds(db[t])}

\* the rows of tier t whose importance_score the run changed
RescoredByRun(t) ==
    {r \in RowSet(db[t]) :
        \E old \in RowSet(last.pre[t]) :
            old.id = r.id /\ old.importance_score # r.importance_score}

RECURSIVE SumCard(_, _)
\* the sum over the tiers in S of the number of rows F[t] holds
SumCard(F, S) ==
    IF S = {} THEN 0
    ELSE LET t == CHOOSE x \in S : TRUE IN Cardinality(F[t]) + SumCard(F, S \ {t})

\* C29: the counters a run returns count what was done: the replacement
\* items stored in each long-term tier, the Working items deleted, the
\* duplicates deleted by the merge and the items whose new score was written
C29_CountersCountSuccesses ==
    (last.op = "consolidate_memories" /\ last.exc = "") =>
        LET st == last.stats IN
        /\ st.working_to_episodic + st.working_to_semantic = Cardinality(CreatedByRun)
        /\ st.expired_removed + st.duplicates_merged
               = SumCard([t \in Tiers |-> DeletedByRun(t)], Tiers)
        /\ st.importance_updated = SumCard([t \in Tiers |-> RescoredByRun(t)], Tiers)

\* ------------------------------------------------------ the store's upsert
\* the items callers hand to a tier's store, and items that replace one
\* already held under the same id
UpsertPool ==
    StorePool \cup
    { [tier |-> "working", cls |-> "WorkingMemory",
       kw |-> [id |-> "working_a1", content |-> cShort, memory_type |-> "working",
               importance_score |-> Score09, expiry_time |-> 1, priority |-> 9]],
      [tier |-> "semantic", cls |-> "MemoryItem",
       kw |-> [id |-> "p1", content |-> cRec, memory_type |-> "procedural",
               importance_score |-> Score02, tags |-> {tb, tai}, access_count |-> 3,
               metadata |-> [origin |-> tb]]] }

\* a caller builds an item and calls stores[tier].update(item)
Update(e) ==
    /\ last = Idle
    /\ nStoreOps < MaxStoreOps
    /\ LET item == DataclassInit(e.cls, e.kw, now).val IN
       /\ \E rows \in Store_update(e.tier, db[e.tier], item) :
              db' = [db EXCEPT ![e.tier] = rows]
       /\ handed' = IF Store_ok(e.tier)
                     THEN [handed EXCEPT ![e.tier] = (item.id :> item) @@ @]
                     ELSE handed
       /\ last' = [op |-> "update", tier |-> e.tier, id |-> item.id,
                    ret |-> Store_ok(e.tier), pre |-> db]
    /\ nStoreOps' = nStoreOps + 1
    /\ UNCHANGED <<now, fault, task>>

\* a caller builds an item and calls stores[tier].store(item) twice in
\* succession; once is the table the first call left
StoreTwice(e) ==
    /\ last = Idle
    /\ nStoreOps < MaxStoreOps
    /\ LET item == DataclassInit(e.cls, e.kw, now).val IN
       /\ \E once \in Store_store(e.tier, db[e.tier], item) :
          \E twice \in Store_store(e.tier, once, item) :
              /\ db' = [db EXCEPT ![e.tier] = twice]
              /\ last' = [op |-> "store_twice", tier |-> e.tier, id |-> item.id,
                          ret |-> Store_ok(e.tier), pre |-> db, once |-> once]
       /\ handed' = IF Store_ok(e.tier)
                     THEN [handed EXCEPT ![e.tier] = (item.id :> item) @@ @]
                     ELSE handed
    /\ nStoreOps' = nStoreOps + 1
    /\ UNCHANGED <<now, fault, task>>

NextStore ==
    \/ \E e \in UpsertPool : Store(e)
    \/ \E e \in UpsertPool : Update(e)
    \/ \E e \in UpsertPool : StoreTwice(e)
    \/ Tick
    \/ Return

SpecStore == Init /\ [][NextStore]_vars

\* a row with its tags column read as the set it was written from
RowAsStored(row) == [row EXCEPT !.tags = ToSet(JsonLoadsList(@))]

\* C31: after store(item) or update(item) the store holds exactly one item
\* with item.id, retrieve gives an item equal to the one stored, the items
\* with other ids and the other stores are as before; update leaves what
\* store leaves, and storing twice leaves what storing once leaves
C31_UpsertIdempotent ==
    (last.op \in {"store", "update", "store_twice"} /\ last.ret) =>
        LET t == last.tier
            item == handed[t][last.id]
        IN /\ Cardinality({i \in 1..Len(db[t]) : db[t][i].id = last.id}) = 1
           /\ Store_retrieve(t, db[t], last.id, now) = [found |-> TRUE, item |-> item]
           /\ SelectSeq(db[t], LAMBDA r : r.id # last.id)
                  = SelectSeq(last.pre[t], LAMBDA r : r.id # last.id)
           /\ \A o \in DOMAIN db \ {t} : db[o] = last.pre[o]
           /\ last.op = "update" => db[t] \in Store_store(t, last.pre[t], item)
           /\ last.op = "store_twice" =>
                  [i \in 1..Len(db[t]) |-> RowAsStored(db[t][i])]
                      = [i \in 1..Len(last.once) |-> RowAsStored(last.once[i])]

\* ------------------------------------ a run whose Store calls would suspend
\* The Store methods of SQLiteMemoryStore never suspend. The operators of
\* this section describe the run that consolidate_memories would make if its
\* awaited Store calls gave the event loop a turn, so that a CancelledError
\* could be thrown into it there: with `left` the number of mutating Store
\* calls (store, update, delete) the run completes before that, each
\* operator follows its loop of the run up to that point. Every committed
\* call stays committed: no statement undoes one.
RECURSIVE ExpireAndPromoteCut(_, _, _, _)
\* the loop over working_items: every outcome [exc, db, left]
ExpireAndPromoteCut(tables, items, left, at) ==
    IF items = <<>> THEN {[exc |-> "", db |-> tables, left |-> left]}
    ELSE LET item == Head(items)
             cancelled == [exc |-> "CancelledError", db |-> tables, left |-> 0]
         IN
         IF item.cls = "WorkingMemory" /\ at > item.ext.expiry_time
         THEN IF ShouldConsolidate(item)
              THEN UNION {
                       IF c.exc # "" THEN {[exc |-> c.exc, db |-> c.db, left |-> left]}
                       ELSE IF left = 0 THEN {cancelled}
                       ELSE IF left = 1
                       THEN {[exc |-> "CancelledError", db |-> c.db, left |-> 0]}
                       ELSE ExpireAndPromoteCut(
                                [c.db EXCEPT !["working"] =
                                    Store_delete("working", c.db["working"], item.id).rows],
                                Tail(items), left - 2, at)
                       : c \in UNION {ConsolidateToLongterm(tables, item, u, at) :
                                         u \in UuidPool}}
              ELSE IF left = 0 THEN {cancelled}
              ELSE ExpireAndPromoteCut(
                       [tables EXCEPT !["working"] =
                           Store_delete("working", tables["working"], item.id).rows],
                       Tail(items), left - 1, at)
         ELSE ExpireAndPromoteCut(tables, Tail(items), left, at)

RECURSIVE RescoreItemsCut(_, _, _, _, _)
\* the loop over one store's items in _update_importance_scores: every
\* outcome [exc, rows, left]
RescoreItemsCut(memory_type, rows, items, left, at) ==
    IF items = <<>> THEN {[exc |-> "", rows |-> rows, left |-> left]}
    ELSE LET item == Head(items)
             new_score == CalculateImportance(item, at)
         IN UNION {
                IF w
                THEN IF left = 0
                     THEN {[exc |-> "CancelledError", rows |-> rows, left |-> 0]}
                     ELSE UNION {RescoreItemsCut(memory_type, r, Tail(items),
                                                 left - 1, at) :
                                    r \in Store_update(memory_type, rows,
                                              [item EXCEPT !.importance_score = new_score])}
                ELSE RescoreItemsCut(memory_type, rows, Tail(items), left, at)
                : w \in ExceedsTenth(new_score, item.importance_score)}

RECURSIVE UpdateImportanceScoresCut(_, _, _, _)
\* _update_importance_scores over the stores listed in order: every outcome
\* [exc, db, left]
UpdateImportanceScoresCut(tables, order, left, at) ==
    IF order = <<>> THEN {[exc |-> "", db |-> tables, left |-> left]}
    ELSE IF Head(order) = "working"
    THEN UpdateImportanceScoresCut(tables, Tail(order), left, at)
    ELSE UNION {
             IF r.exc # ""
             THEN {[exc |-> r.exc, db |-> [tables EXCEPT ![Head(order)] = r.rows],
                    left |-> 0]}
             ELSE UpdateImportanceScoresCut([tables EXCEPT ![Head(order)] = r.rows],
                                            Tail(order), r.left, at)
             : r \in UNION {RescoreItemsCut(Head(order), tables[Head(order)], items,
                                            left, at) :
                               items \in Store_search(Head(order), tables[Head(order)],
                                             [memory_type |-> Head(order),
                                              limit |-> SweepLimit], at)}}

RECURSIVE DeleteDuplicatesCut(_, _, _, _)
\* the store.delete calls of the loop over group[1:]: [exc, rows, left]
DeleteDuplicatesCut(memory_type, rows, dups, left) ==
    IF dups = <<>> THEN [exc |-> "", rows |-> rows, left |-> left]
    ELSE IF left = 0 THEN [exc |-> "CancelledError", rows |-> rows, left |-> 0]
    ELSE DeleteDuplicatesCut(memory_type,
                             Store_delete(memory_type, rows, Head(dups).id).rows,
                             Tail(dups), left - 1)

RECURSIVE MergeGroupsCut(_, _, _, _, _)
\* the loop over content_groups in _merge_duplicates for one store: every
\* outcome [exc, rows, left]. The duplicates are merged into primary_item, an
\* object of the run, and deleted one by one; the primary is written last
MergeGroupsCut(memory_type, rows, items, hashes, left) ==
    IF hashes = <<>> THEN {[exc |-> "", rows |-> rows, left |-> left]}
    ELSE LET group == StableSortByImportance(
                          SelectSeq(items, LAMBDA it : Md5(Str(it.content)) = Head(hashes)))
         IN IF Len(group) > 1
            THEN LET primary == FoldDuplicates(group[1], Tail(group))
                     d == DeleteDuplicatesCut(memory_type, rows, Tail(group), left)
                 IN IF d.exc # "" THEN {d}
                    ELSE IF d.left = 0
                    THEN {[exc |-> "CancelledError", rows |-> d.rows, left |-> 0]}
                    ELSE UNION {MergeGroupsCut(memory_type, r, items, Tail(hashes),
                                               d.left - 1) :
                                   r \in Store_update(memory_type, d.rows, primary)}
            ELSE MergeGroupsCut(memory_type, rows, items, Tail(hashes), left)

RECURSIVE MergeDuplicatesCut(_, _, _, _)
\* _merge_duplicates over the stores listed in order: every outcome
\* [exc, db, left]
MergeDuplicatesCut(tables, order, left, at) ==
    IF order = <<>> THEN {[exc |-> "", db |-> tables, left |-> left]}
    ELSE UNION {
             IF m.exc # ""
             THEN {[exc |-> m.exc, db |-> [tables EXCEPT ![Head(order)] = m.rows],
                    left |-> 0]}
             ELSE MergeDuplicatesCut([tables EXCEPT ![Head(order)] = m.rows],
                                     Tail(order), m.left, at)
             : m \in UNION {IF HashingRaises(items)
                            THEN {[exc |-> "UnicodeEncodeError",
                                   rows |-> tables[Head(order)], left |-> 0]}
                            ELSE MergeGroupsCut(Head(order), tables[Head(order)], items,
                                                FirstSeen(items), left) :
                               items \in Store_search(Head(order), tables[Head(order)],
                                             [memory_type |-> Head(order),
                                              limit |-> SweepLimit], at)}}

\* consolidate_memories cancelled after `left` mutating Store calls: every
\* outcome [exc, db, left]; exc is "" when the run ended before that
ConsolidateMemoriesCut(tables, order, left, at) ==
    UNION {
        IF s1.exc # "" THEN {s1}
        ELSE UNION {
                 IF s2.exc # "" THEN {s2}
                 ELSE MergeDuplicatesCut(s2.db, order, s2.left, at)
                 : s2 \in UpdateImportanceScoresCut(s1.db, order, s1.left, at)}
        : s1 \in UNION {ExpireAndPromoteCut(tables, items, left, at) :
                           items \in IF "working" \in ToSet(order)
                                     THEN Store_search("working", tables["working"],
                                              [memory_type |-> "working"], at)
                                     ELSE {<<>>}}}

\* the most Store calls such a run completes before it is cancelled
MaxCutPoint == 3

\* what is compared of a store's items: the ids with their tags and
\* access_counts
SurvivorView(tables) ==
    [t \in DOMAIN tables |->
        {[id |-> r.id, tags |-> ToSet(JsonLoadsList(r.tags)),
          access_count |-> r.access_count] : r \in RowSet(tables[t])}]

\* ------------------------- concurrent calls on stores of readable items
\* stores = {MemoryType.WORKING: SQLiteMemoryStore(...), MemoryType.PROCEDURAL:
\* SQLiteMemoryStore(...)}; consolidation = MemoryConsolidation(stores);
\* retrieval = MemoryRetrieval(stores): one dict for both, as in
\* MemorySystem.__init__ (lines 753-754). The contexts of the
\* retrieve_by_context calls:
TouchContextPool == {EmptyDict, [keywords |-> <<tb>>]}

\* the contexts of the calls gathered together, in the order listed
GatherContextsPool ==
    { <<EmptyDict, EmptyDict>>,
      <<[keywords |-> <<tAI>>], EmptyDict>> }

\* a retrieve_by_context whose store.update suspends before it writes: the
\* searches have returned their items, the run takes place, and the touched
\* items are written afterwards
GatherRetrievalSuspended(context, first) ==
    /\ last = Idle
    /\ \A r \in RowSet(db["procedural"]) : r.access_count < MaxAccessCount
    /\ \E w \in ContextFanOut(db, <<"working">>, context, now) :
       \E results \in Store_search("procedural", w.db["procedural"],
                          BuildContextQuery(context, "procedural"), now) :
       \E c \in ConsolidateMemoriesIn(w.db, SweepStores, now) :
       \E t \in TouchAll("procedural", c.db["procedural"], results, now) :
        LET final == [c.db EXCEPT !["procedural"] = t.rows] IN
        /\ db' = final
        /\ handed' = Prune(handed, final)
        /\ last' = [op |-> "gather", first |-> first, context |-> context,
                    exc |-> c.exc, ret |-> SortByRelevance(w.all \o t.items),
                    pre |-> db, run_pre |-> w.db, run_post |-> c.db,
                    touched |-> final, at |-> now]
    /\ UNCHANGED <<now, nStoreOps, fault, task>>

\* a run whose store.update suspends before it writes: the importance sweep
\* has searched the procedural store, the retrieve_by_context call takes
\* place, and the sweep writes the items it holds afterwards
GatherRunSuspended(context, first) ==
    /\ last = Idle
    /\ \A r \in RowSet(db["procedural"]) : r.access_count < MaxAccessCount
    /\ \E working_items \in Store_search("working", db["working"],
                                [memory_type |-> "working"], now) :
       \E s1 \in ExpireAndPromote(db, working_items, NoStats, now) :
       \E items \in Store_search("procedural", s1.db["procedural"],
                        [memory_type |-> "procedural", limit |-> SweepLimit], now) :
       \E o \in RetrieveByContextIn(s1.db, SweepStores, context, now) :
       \E rows \in RescoreItems("procedural", o.db["procedural"], items, now) :
       \E m \in MergeDuplicatesIn([o.db EXCEPT !["procedural"] = rows], SweepStores, now) :
        /\ s1.exc = ""
        /\ db' = m.db
        /\ handed' = Prune(handed, m.db)
        /\ last' = [op |-> "gather", first |-> first, context |-> context,
                    exc |-> m.exc, ret |-> o.ret, pre |-> db, run_pre |-> db,
                    run_post |-> m.db, touched |-> o.db, at |-> now]
    /\ UNCHANGED <<now, nStoreOps, fault, task>>

\* await asyncio.gather(consolidation.consolidate_memories(),
\* retrieval.retrieve_by_context(context)), or with the arguments the other
\* way round: neither coroutine suspends, so the one listed first runs to
\* its end before the other starts. run_pre and run_post are the tables
\* before and after the run, touched the tables after the retrieval
GatherRunAndRetrieveOn(context, first) ==
    /\ last = Idle
    /\ \A r \in RowSet(db["procedural"]) : r.access_count < MaxAccessCount
    /\ \E o \in IF first = "consolidate_memories"
                THEN UNION {{[run |-> c, got |-> r, run_pre |-> db] :
                               r \in RetrieveByContextIn(c.db, SweepStores, context, now)} :
                            c \in ConsolidateMemoriesIn(db, SweepStores, now)}
                ELSE UNION {{[run |-> c, got |-> r, run_pre |-> r.db] :
                               c \in ConsolidateMemoriesIn(r.db, SweepStores, now)} :
                            r \in RetrieveByContextIn(db, SweepStores, context, now)} :
        LET final == IF first = "consolidate_memories" THEN o.got.db ELSE o.run.db IN
        /\ db' = final
        /\ handed' = Prune(handed, final)
        /\ last' = [op |-> "gather", first |-> first, context |-> context,
                    exc |-> o.run.exc, ret |-> o.got.ret, pre |-> db,
                    run_pre |-> o.run_pre, run_post |-> o.run.db,
                    touched |-> o.got.db, at |-> now]
    /\ UNCHANGED <<now, nStoreOps, fault, task>>

\* await asyncio.gather(*[retrieval.retrieve_by_context(c) for c in
\* contexts])
GatherRetrievals(contexts) ==
    /\ last = Idle
    /\ \A r \in RowSet(db["procedural"]) :
           r.access_count + Len(contexts) <= MaxAccessCount
    /\ \E o \in RetrieveEachIn(db, SweepStores, contexts, now) :
        /\ db' = o.db
        /\ last' = [op |-> "gather_retrievals", contexts |-> contexts,
                    rets |-> o.rets, steps |-> o.steps, pre |-> db]
    /\ UNCHANGED <<now, handed, nStoreOps, fault, task>>

\* a run that a CancelledError ends at one of its Store calls, after at most
\* MaxCutPoint of them
CancelRunTaskCut(yielded) ==
    /\ last = Idle
    /\ \E k \in 0..MaxCutPoint :
       \E o \in ConsolidateMemoriesCut(db, SweepStores, IF yielded THEN k ELSE 0, now) :
        /\ o.exc = "CancelledError"
        /\ db' = o.db
        /\ handed' = Prune(handed, o.db)
        /\ last' = [op |-> "cancelled_run", exc |-> o.exc, yielded |-> yielded,
                    pre |-> db,
                    uninterrupted |->
                        {SurvivorView(u.db) :
                            u \in ConsolidateMemoriesIn(db, SweepStores, now)},
                    at |-> now]
    /\ UNCHANGED <<now, nStoreOps, fault, task>>

\* t = asyncio.create_task(consolidation.consolidate_memories()); then
\* t.cancel(), at once or after `await asyncio.sleep(0)`. Cancelled at once,
\* the task gets the CancelledError at its first step and the run never
\* starts. Once the caller has yielded, the task has run: the run has no
\* suspension point, so it is over when the caller goes on, and cancel() of a
\* finished task changes nothing. uninterrupted is what a run left alone
\* could have made of the same tables
CancelRunTask(yielded) ==
    /\ last = Idle
    /\ \E o \in IF yielded
                THEN {[exc |-> c.exc, db |-> c.db] :
                         c \in ConsolidateMemoriesIn(db, SweepStores, now)}
                ELSE {[exc |-> "CancelledError", db |-> db]} :
        /\ db' = o.db
        /\ handed' = Prune(handed, o.db)
        /\ last' = [op |-> "cancelled_run", exc |-> o.exc, yielded |-> yielded,
                    pre |-> db,
                    uninterrupted |->
                        {SurvivorView(u.db) :
                            u \in ConsolidateMemoriesIn(db, SweepStores, now)},
                    at |-> now]
    /\ UNCHANGED <<now, nStoreOps, fault, task>>

\* the next run after the cancellation, a complete one
ConsolidateAfterCancel ==
    /\ last.op = "cancelled_run"
    /\ \E o \in ConsolidateMemoriesIn(db, SweepStores, now) :
        /\ db' = o.db
        /\ handed' = Prune(handed, o.db)
        /\ last' = [op |-> "run_after_cancel", exc |-> o.exc,
                    yielded |-> last.yielded, pre |-> last.pre, interrupted |-> db,
                    uninterrupted |-> last.uninterrupted, at |-> now]
    /\ UNCHANGED <<now, nStoreOps, fault, task>>

NextGather ==
    \/ \E e \in SweepPool : Store(e)
    \/ \E c \in TouchContextPool, f \in {"consolidate_memories", "retrieve_by_context"} :
           GatherRunAndRetrieveOn(c, f)
    \/ Tick
    \/ Return

SpecGather == InitSweep /\ [][NextGather]_vars

NextTouches ==
    \/ \E e \in SweepPool : Store(e)
    \/ \E cs \in GatherContextsPool : GatherRetrievals(cs)
    \/ Tick
    \/ Return

SpecTouches == InitSweep /\ [][NextTouches]_vars

NextCancelTask ==
    \/ \E e \in SweepPool : Store(e)
    \/ \E y \in BOOLEAN : CancelRunTask(y)
    \/ ConsolidateAfterCancel
    \/ Tick
    \/ Return

SpecCancelTask == InitSweep /\ [][NextCancelTask]_vars

\* the ids of store t that the run of a gather deleted
DeletedInGather(t) == RowIds(last.run_pre[t]) \ RowIds(last.run_post[t])

TouchesOf(item_id) ==
    Cardinality({i \in 1..Len(last.rets) : item_id \in SeqIds(last.rets[i])})

\* C18: while concurrent retrieve_by_context calls touch the same items, no
\* stored access_count is lower after a call than before it, and an item
\* that k of the calls touched ends with at least its access_count plus 1
\* and at most its access_count plus k
C18_TouchCountersMonotonic ==
    last.op = "gather_retrievals" =>
        LET states == <<last.pre>> \o last.steps IN
        \A t \in DOMAIN db :
            /\ \A i \in 1..Len(last.steps) :
                   \A a \in RowSet(states[i][t]) :
                       \E b \in RowSet(states[i + 1][t]) :
                           b.id = a.id /\ b.access_count >= a.access_count
            /\ \A r \in RowSet(last.pre[t]) :
                   TouchesOf(r.id) >= 1 =>
                       \E s \in RowSet(db[t]) :
                           /\ s.id = r.id
                           /\ s.access_count >= r.access_count + 1
                           /\ s.access_count <= r.access_count + TouchesOf(r.id)

\* two of the gathered calls touched one item, and only one of them touched
\* another
C18_TouchedByTwoCalls ==
    /\ last.op = "gather_retrievals"
    /\ \E r1, r2 \in RowSet(last.pre["procedural"]) :
           TouchesOf(r1.id) >= 2 /\ TouchesOf(r2.id) = 1

NextReads ==
    \/ \E e \in StorePool : Store(e)
    \/ \E i \in IdPool : RetrieveMemoryCall(i)
    \/ \E q \in QueryPool : SearchMemoriesCall(q)
    \/ GetMemoryStatsCall
    \/ \E t \in Tiers, i \in IdPool, th \in ThresholdPool : RetrieveSimilarCall(t, i, th)
    \/ \E sc \in SeedPool, d \in DepthPool : RetrieveByAssociationCall(sc, d)
    \/ Tick
    \/ Return

SpecReads == Init /\ [][NextReads]_vars

ReadOnlyOps ==
    {"retrieve_memory", "search_memories", "get_memory_stats", "retrieve_similar",
     "retrieve_by_association"}

\* C36: a call of the facade's retrieve, search or get_stats, of
\* retrieve_similar or of retrieve_by_association leaves every row of every
\* tier as it was, access_count and last_accessed included
C36_ReadsLeaveStoresUnchanged ==
    [][last'.op \in ReadOnlyOps => db' = db]_vars

\* a retrieve_memory call, made an hour after the store, has returned an
\* item whose row is in the store with the access_count and last_accessed
\* it was stored with
C36_RetrievedAndUntouched ==
    /\ last.op = "retrieve_memory"
    /\ last.ret.found
    /\ now > last.ret.item.last_accessed
    /\ \E t \in Tiers : \E r \in RowSet(db[t]) :
           /\ r.id = last.id
           /\ r.access_count = handed[t][r.id].access_count
           /\ r.last_accessed = handed[t][r.id].last_accessed

\* ------------------------------------------------ low scores and the next run
\* long-term items stored with scores below and above the recomputed range
FloorPool ==
    { [tier |-> "episodic", cls |-> "EpisodicMemory",
       kw |-> [id |-> "episodic_c3", content |-> cShort, memory_type |-> "episodic",
               importance_score |-> Score02]],
      [tier |-> "episodic", cls |-> "EpisodicMemory",
       kw |-> [id |-> "episodic_b2", content |-> cShort, memory_type |-> "episodic",
               importance_score |-> Score09, tags |-> {tb}, access_count |-> 2]],
      [tier |-> "semantic", cls |-> "SemanticMemory",
       kw |-> [id |-> "semantic_c3", content |-> cLong, memory_type |-> "semantic",
               importance_score |-> Score02, tags |-> {tAI, tb},
               concept |-> <<"c">>]],
      [tier |-> "semantic", cls |-> "SemanticMemory",
       kw |-> [id |-> "semantic_a1", content |-> cLong, memory_type |-> "semantic",
               importance_score |-> Score15, tags |-> {tAI, tb},
               concept |-> <<"c">>]],
      [tier |-> "semantic", cls |-> "MemoryItem",
       kw |-> [id |-> "p1", content |-> cShort, memory_type |-> "procedural",
               importance_score |-> Score02, tags |-> {tAI}]] }

NextFloor ==
    \/ \E e \in FloorPool : Store(e)
    \/ Consolidate
    \/ Tick
    \/ Return

SpecFloor == Init /\ [][NextFloor]_vars

\* C39: a score that a run's recompute writes to an Episodic or Semantic
\* item lies between 0.5 and 1, and an item stored with a score below 0.4
\* holds a score of at least 0.5 after the next run
C39_RecomputeFloor ==
    last.op = "consolidate_memories" =>
        \A t \in {"episodic", "semantic"} :
            \A old \in {r \in RowSet(last.pre[t]) : r.memory_type = t} :
                \A new \in {r \in RowSet(db[t]) : r.id = old.id} :
                    /\ new.importance_score # old.importance_score =>
                           /\ new.importance_score * 2 >= ScoreOne
                           /\ new.importance_score <= ScoreOne
                    /\ old.importance_score * 10 < 4 * ScoreOne =>
                           new.importance_score * 2 >= ScoreOne

\* ------------------------------------------- the loop, with runs that raise
\* a loop without the try/except of lines 764-768: an exception of the run
\* ends the task
EndOnException(exc) == IF exc = "" THEN "sleeping" ELSE "done"

\* `except Exception as e: self.logger.error(...)` inside `while True`:
\* whether the run returned or raised, the loop goes to its next
\* asyncio.sleep
AfterRun(exc) == "sleeping"

\* self.stores of a MemorySystem to which the caller has added a store of
\* type PROCEDURAL (system.stores[MemoryType.PROCEDURAL] =
\* SQLiteMemoryStore(...)): MemoryConsolidation holds the same dict
LoopStores == <<"working", "episodic", "semantic", "procedural">>

\* MemorySystem.__init__ followed by that assignment; logged holds the
\* numbers of the runs whose exception the loop has logged
InitLoopFail ==
    /\ db = [t \in ToSet(LoopStores) |-> <<>>]
    /\ now = 0
    /\ last = Idle
    /\ handed = [t \in ToSet(LoopStores) |-> EmptyDict]
    /\ nStoreOps = 0
    /\ fault = [t \in MemoryType |-> "none"]
    /\ task = [pc |-> "created", wake |-> 0, must_cancel |-> FALSE, started |-> 0,
               finished |-> 0, logged |-> {}]

\* the items callers store while the loop is scheduled
LoopPool == {e \in RunPool : e.kw.id \in {"working_b2", "m3", "m7"}}

\* the task resumes after the sleep: one consolidate_memories run on those
\* stores; an exception of the run is caught and logged at lines 767-768,
\* and the loop sleeps again
LoopRunOnStores ==
    /\ last = Idle
    /\ task.pc = "woken"
    /\ ~CancelRequested(task)
    /\ \E o \in ConsolidateMemoriesIn(db, LoopStores, now) :
        /\ db' = o.db
        /\ handed' = Prune(handed, o.db)
        /\ task' = [AwaitRun(task) EXCEPT
                       !.pc = AfterRun(o.exc),
                       !.wake = now + SleepHours,
                       !.logged = IF o.exc = "" THEN @ ELSE @ \cup {task.started + 1}]
    /\ UNCHANGED <<now, last, nStoreOps, fault>>

\* a caller deletes an item a store holds
DeleteStored(tier, item_id) ==
    /\ item_id \in RowIds(db[tier])
    /\ Delete(tier, item_id)

NextLoopFail ==
    \/ LoopStart
    \/ TimerFires
    \/ LoopRunOnStores
    \/ TaskCancelled
    \/ Cleanup
    \/ \E e \in LoopPool : Store(e)
    \/ DeleteStored("procedural", "m7")
    \/ Tick
    \/ Return

SpecLoopFail == InitLoopFail /\ [][NextLoopFail]_vars

\* the event loop runs a task that is ready, a due timer fires and a caller
\* takes what its call returned
SpecLoopFailLive ==
    /\ SpecLoopFail
    /\ WF_vars(LoopStart) /\ WF_vars(TimerFires) /\ WF_vars(LoopRunOnStores)
    /\ WF_vars(Return)

\* C40: when a run of the background loop ends with an exception, the loop
\* logs it and stays scheduled: unless cleanup is called, a later run is
\* started; the task ends only after a cancellation was requested
C40_FailedRunRescheduled ==
    /\ [](task.pc = "done" => task.must_cancel)
    /\ \A k \in 1..(MaxRuns - 1) :
           (k \in task.logged /\ task.started = k)
               ~> (task.started > k \/ task.must_cancel)

\* the first run raised, and a second run was started with no cleanup
C40_RunAfterFailedRun ==
    /\ 1 \in task.logged
    /\ task.started >= 2
    /\ ~task.must_cancel

\* --------------------------------------------- the tiers and their stores
\* the stores of LoopStores, on fresh databases
InitTiers ==
    /\ db = [t \in ToSet(LoopStores) |-> <<>>]
    /\ now = 0
    /\ last = Idle
    /\ handed = [t \in ToSet(LoopStores) |-> EmptyDict]
    /\ nStoreOps = 0
    /\ fault = [t \in MemoryType |-> "none"]
    /\ task = NewTask

\* the items callers hand to the store of the item's own memory type
TierPool ==
    {e \in StorePool : e.kw.memory_type = e.tier /\ e.kw.id \in {"working_b2", "episodic_a1"}}

\* a caller calls retrieval.retrieve_by_context(context) on that system
RetrieveByContextOnStores(context) ==
    /\ last = Idle
    /\ \A r \in RowSet(db["procedural"]) : r.access_count < MaxAccessCount
    /\ \E o \in {[db |-> f.db, ret |-> SortByRelevance(f.all)] :
                    f \in ContextFanOut(db, LoopStores, context, now)} :
        /\ db' = o.db
        /\ last' = [op |-> "retrieve_by_context", context |-> context,
                    ret |-> o.ret, pre |-> db]
    /\ UNCHANGED <<now, handed, nStoreOps, fault, task>>

\* one call of consolidation.consolidate_memories() on that system
ConsolidateOnStores ==
    /\ last = Idle
    /\ \E o \in ConsolidateMemoriesIn(db, LoopStores, now) :
        /\ db' = o.db
        /\ handed' = Prune(handed, o.db)
        /\ last' = [op |-> "consolidate_memories", exc |-> o.exc,
                    stats |-> IF o.exc = "" THEN o.stats ELSE NoStats,
                    pre |-> db, handed |-> handed, at |-> now]
    /\ UNCHANGED <<now, nStoreOps, fault, task>>

NextTiers ==
    \/ \E e \in TierPool : Store(e)
    \/ \E c \in StoreMemoryPool, u \in UuidPool :
           StoreMemoryCall(c.content, c.memory_type, c.kwargs, u)
    \/ \E c \in TouchContextPool : RetrieveByContextOnStores(c)
    \/ ConsolidateOnStores
    \/ Return

SpecTiers == InitTiers /\ [][NextTiers]_vars

\* the calls of the facade and the consolidation run
FacadeOps ==
    {"store_memory", "retrieve_memory", "search_memories", "get_memory_stats",
     "consolidate_memories"}

\* C33: every item held in the store of memory type T has T as its
\* memory_type, and when a facade call or a consolidation run has ended no
\* id is held by the stores of two memory types
C33_TierStoreConsistent ==
    /\ \A t \in DOMAIN db : \A r \in RowSet(db[t]) : r.memory_type = t
    /\ last.op \in FacadeOps =>
           \A t1, t2 \in DOMAIN db : t1 # t2 => RowIds(db[t1]) \cap RowIds(db[t2]) = {}

\* a run has merged two items of one store into one while the store of
\* another memory type held an item, or store_memory has stored an item
\* beside an item of another memory type
C33_WrittenBesideOtherTier ==
    /\ \/ last.op = "consolidate_memories" /\ last.stats.duplicates_merged > 0
       \/ last.op = "store_memory" /\ last.ret # ""
    /\ \E t1, t2 \in DOMAIN db : t1 # t2 /\ db[t1] # <<>> /\ db[t2] # <<>>

=============================================================================
